---- MODULE Spec2Model ----
(***************************************************************************)
(* Model of the tile extraction engine of cibotiler (tiling.py and         *)
(* resamplerhelper.py): getTile and the functions it calls.                *)
(*                                                                         *)
(* Projected and pixel coordinates are exact rationals <<n, d>>; the       *)
(* projected unit is the zoom-0 resolution (78271.516 m), so that the      *)
(* tile grid of getExtentforWebMTile is made of dyadic numbers, on which   *)
(* the doubles of the code compute without rounding.  The rescale          *)
(* arithmetic, where rounding decides the output sample, is modelled as    *)
(* IEEE-754 double arithmetic on 53 bit significands.                      *)
(***************************************************************************)
EXTENDS Integers, Sequences, FiniteSets, TLC

\* an optional value is None or Some(v); the value of Some(v) is v[1]
None == <<>>

Some(v) == <<v>>

Abs(x) == IF x < 0 THEN -x ELSE x

Max2(a, b) == IF a >= b THEN a ELSE b

Min2(a, b) == IF a <= b THEN a ELSE b

RECURSIVE GCD(_, _)
GCD(a, b) == IF b = 0 THEN a ELSE GCD(b, a % b)

(***************************************************************************)
(* Exact rationals <<n, d>>, d > 0, in lowest terms.                       *)
(***************************************************************************)
Rat(n, d) ==
    LET s == IF d < 0 THEN -1 ELSE 1
        g == GCD(Abs(n), Abs(d))
    IN  <<(s * n) \div g, (s * d) \div g>>

RInt(i) == <<i, 1>>

RAdd(p, q) == Rat(p[1] * q[2] + q[1] * p[2], p[2] * q[2])

RSub(p, q) == Rat(p[1] * q[2] - q[1] * p[2], p[2] * q[2])

RMul(p, q) == Rat(p[1] * q[1], p[2] * q[2])

RDiv(p, q) == Rat(p[1] * q[2], p[2] * q[1])

RLt(p, q) == p[1] * q[2] < q[1] * p[2]

RLe(p, q) == p[1] * q[2] <= q[1] * p[2]

RMax(p, q) == IF RLt(p, q) THEN q ELSE p

RMin(p, q) == IF RLt(q, p) THEN q ELSE p

\* numpy.floor / numpy.ceil
RFloor(q) == q[1] \div q[2]

RCeil(q) == -((-q[1]) \div q[2])

\* int(): truncation towards zero
RTrunc(q) == IF q[1] >= 0 THEN RFloor(q) ELSE RCeil(q)

\* numpy.round and round(): nearest integer, ties to the even one
RRound(q) ==
    LET f == RFloor(q)
        r2 == 2 * (q[1] - f * q[2])
    IN  IF r2 < q[2] THEN f
        ELSE IF r2 > q[2] THEN f + 1
        ELSE IF f % 2 = 0 THEN f ELSE f + 1

(***************************************************************************)
(* IEEE-754 doubles.  A positive double is [m |-> its 53 significand bits, *)
(* most significant first, e |-> the exponent of the last bit].            *)
(***************************************************************************)
MantBits == 52 + 1

\* width of the limbs the significand is multiplied in
LimbBits == 10 + 1

LimbBase == 2 ^ LimbBits

\* number of bits of n (0 for n = 0), n < 2^30
BitLen(n) == CHOOSE k \in 0..30 : n < 2 ^ k /\ (k = 0 \/ n >= 2 ^ (k - 1))

\* (h * h * 2^odd) mod den
SquareMod(h, odd, den) == (((h * h) % den) * (1 + odd)) % den

\* 2^i mod den, den < 2^15
RECURSIVE Pow2Mod(_, _)
Pow2Mod(i, den) ==
    IF i = 0 THEN 1 % den
    ELSE SquareMod(Pow2Mod(i \div 2, den), i % 2, den)

RECURSIVE BitsNat(_)
BitsNat(bits) ==
    IF bits = <<>> THEN 0
    ELSE 2 * BitsNat(SubSeq(bits, 1, Len(bits) - 1)) + bits[Len(bits)]

\* (num * 2^i) mod den
ShiftRem(num, den, i) == ((num % den) * Pow2Mod(i, den)) % den

\* the binary digit of num / den of weight 2^-k
QuotBit(num, den, k) ==
    IF k >= 1 THEN (2 * ShiftRem(num, den, k - 1)) \div den
    ELSE ((num \div den) \div (2 ^ (-k))) % 2

\* the significand m with one unit added at position p, the lowest 0 bit
FlRoundUpAt(m, e, p) ==
    [m |-> [j \in 1..MantBits |-> IF j < p THEN m[j] ELSE IF j = p THEN 1 ELSE 0]
               \o <<>>,
     e |-> e]

\* the significand rounded up by one unit in the last place
FlRoundUp(m, e) ==
    IF \A j \in 1..MantBits : m[j] = 1
    THEN [m |-> [j \in 1..MantBits |-> IF j = 1 THEN 1 ELSE 0] \o <<>>,
          e |-> e + 1]
    ELSE FlRoundUpAt(m, e, CHOOSE j \in 1..MantBits :
                               m[j] = 0 /\ \A k \in (j + 1)..MantBits : m[k] = 1)

\* round to nearest, ties to even: guard is the first bit dropped, sticky
\* tells whether a later one is set
FlRound(m, e, guard, sticky) ==
    IF guard /\ (sticky \/ m[MantBits] = 1) THEN FlRoundUp(m, e)
    ELSE [m |-> m, e |-> e]

\* the number of binary digits after the point that a significand of
\* num / den takes in
FlShift(num, den) ==
    IF num >= den THEN MantBits - BitLen(num \div den)
    ELSE MantBits - 1 + (CHOOSE i \in 1..30 :
                            /\ 2 ^ i >= (den + num - 1) \div num
                            /\ (i = 1 \/ 2 ^ (i - 1) < (den + num - 1) \div num))

\* num / den cut after s binary digits and rounded
FlDivShifted(num, den, s) ==
    FlRound([j \in 1..MantBits |-> QuotBit(num, den, s - MantBits + j)] \o <<>>,
            -s,
            2 * ShiftRem(num, den, s) >= den,
            2 * ShiftRem(num, den, s) > den)

\* the double nearest to num / den (0 < num, 0 < den), ties to even
FlDiv(num, den) == FlDivShifted(num, den, FlShift(num, den))

\* the k-th limb of a significand, least significant limb first
Limb(m, k) ==
    BitsNat(SubSeq(m, Max2(1, MantBits - (k + 1) * LimbBits + 1),
                      MantBits - k * LimbBits))

\* the limbs of x * m from limb k on, carry coming from the limbs below
RECURSIVE MulLimbs(_, _, _, _)
MulLimbs(x, m, k, carry) ==
    IF k = 4 THEN <<x * Limb(m, 4) + carry>>
    ELSE <<(x * Limb(m, k) + carry) % LimbBase>>
             \o MulLimbs(x, m, k + 1, (x * Limb(m, k) + carry) \div LimbBase)

\* bit q of the product p, q = 0 the least significant
PBit(p, q) ==
    IF q >= 4 * LimbBits THEN (p[5] \div (2 ^ (q - 4 * LimbBits))) % 2
    ELSE (p[(q \div LimbBits) + 1] \div (2 ^ (q % LimbBits))) % 2

\* the double nearest to the product p of lp bits, in units of 2^e
FlOfProduct(p, e, lp) ==
    FlRound([j \in 1..MantBits |-> PBit(p, lp - j)] \o <<>>,
            e + lp - MantBits,
            lp > MantBits /\ PBit(p, lp - MantBits - 1) = 1,
            \E q \in 0..(lp - MantBits - 2) : PBit(p, q) = 1)

FlOfLimbs(p, e) == FlOfProduct(p, e, 4 * LimbBits + BitLen(p[5]))

\* the double nearest to x * f for an integer valued double 0 < x < 2^17
FlMulNat(x, f) == FlOfLimbs(MulLimbs(x, f.m, 0, 0), f.e)

\* int(f) for a positive double f < 2^30
FlTrunc(f) ==
    IF MantBits + f.e <= 0 THEN 0 ELSE BitsNat(SubSeq(f.m, 1, MantBits + f.e))

\* whether the positive double f is an integer
FlIsInt(f) == \A j \in (Max2(MantBits + f.e, 0) + 1)..MantBits : f.m[j] = 0

\* int(numpy.ceil(f)) for a positive double f < 2^30
FlCeil(f) == IF FlIsInt(f) THEN FlTrunc(f) ELSE FlTrunc(f) + 1

\* whether num / den is a double: the reduced denominator is a power of two
ExactQuotient(num, den) ==
    \E i \in 0..30 : den \div GCD(num, den) = 2 ^ i

\* int(x * (num / den)) in doubles, for integers x >= 0, num > 0, den > 0.
\* The double product is within 2^-30 of x * num / den, so the rounding of
\* the doubles decides the integer part only when x * num / den is whole.
\* f is the double num / den.
FloorProdBy(x, num, den, f) ==
    IF x = 0 THEN 0
    ELSE IF (x * num) % den # 0 \/ ExactQuotient(num, den)
    THEN (x * num) \div den
    ELSE FlTrunc(FlMulNat(x, f))

FloorProd(x, num, den) == FloorProdBy(x, num, den, FlDiv(num, den))

\* int(numpy.ceil(x * (num / den))) in doubles, for x, num, den as above
CeilOfProd(x, num, den) ==
    IF x = 0 THEN 0
    ELSE IF ExactQuotient(num, den) THEN -(((-x) * num) \div den)
    ELSE IF (x * num) % den # 0 THEN (x * num) \div den + 1
    ELSE FlCeil(FlMulNat(x, FlDiv(num, den)))

(***************************************************************************)
(* Bounds of the model and the sets the inputs are drawn from.             *)
(***************************************************************************)
\* datasets have 1..MaxRasterCount bands
MaxRasterCount == 4

\* rescaling lists have up to MaxRescaleLen (min, max) pairs
MaxRescaleLen == 3

\* zoom levels requested: tiles of 2, 1 and 1/2 projected units
Zooms == {8, 9, 10}

\* tile indices requested: at these zoom levels the tiles next to the
\* corner of the grid, where the rasters lie
TileIndices == {0, 1}

TileSizes == {4}

\* sample values the raster bands hold
PixelValues == <<0, 25, 500, 1500, -1, 1, 1000>>

\* (min, max) pairs of the rescaling lists, by position
RescalePairs == <<<<0, 1000>>, <<0, 25>>, <<25, 500>>, <<0, 1000>>, <<1, 1500>>>>

ResamplingNames == {"near", "bilinear", "cubic"}

OutTileTypes == {"uint8"}

\* numpy.iinfo(outTileType).max
IInfoMax(t) == IF t = "uint8" THEN 255 ELSE 65535

\* a colormap table: 4 rows (R, G, B, A) of K columns, columns indexed from 0
ColormapA ==
    [shape |-> <<4, 3>>,
     tab |-> [n \in 0..3 |-> [k \in 0..2 |->
                 <<<<255, 215, 8>>, <<255, 25, 96>>, <<255, 28, 9>>,
                   <<64, 255, 128>>>>[n + 1][k + 1]]]]

Colormaps == {ColormapA}

(***************************************************************************)
(* The raster store: datasets, their bands, overviews and pixels.          *)
(***************************************************************************)
\* geotransforms (north up), raster sizes and overview levels of the datasets
Geoms ==
    { [RasterXSize |-> 6, RasterYSize |-> 5, levels |-> 1,
       transform |-> <<Rat(-1023, 4), Rat(1, 4), RInt(0),
                       Rat(1023, 4), RInt(0), Rat(-1, 4)>>],
      [RasterXSize |-> 5, RasterYSize |-> 6, levels |-> 0,
       transform |-> <<Rat(-2047, 8), Rat(1, 4), RInt(0),
                       Rat(2045, 8), RInt(0), Rat(-1, 4)>>] }

\* per band nodata values: none, or 0 on band 1 and 25 on band 2 only
NoDataConfigs == {"none", "some"}

NoDataOf(cfg, b) ==
    IF cfg = "some" /\ b = 1 THEN Some(0)
    ELSE IF cfg = "some" /\ b = 2 THEN Some(25)
    ELSE None

\* the overview pyramid of a band: level i has 1 / 2^i of the size
OvSizesOf(g, n) ==
    [i \in 1..n |-> <<(g.RasterXSize + 2 ^ i - 1) \div (2 ^ i),
                      (g.RasterYSize + 2 ^ i - 1) \div (2 ^ i)>>]

Datasets ==
    { [RasterXSize |-> g.RasterXSize, RasterYSize |-> g.RasterYSize,
       RasterCount |-> rc, transform |-> g.transform,
       nodata |-> [b \in 1..rc |-> NoDataOf(nd, b)],
       ovsizes |-> [b \in 1..rc |-> OvSizesOf(g, g.levels)]] :
      g \in Geoms, rc \in 1..MaxRasterCount, nd \in NoDataConfigs }

\* the sample of band b at full resolution row r, column c
PixelAt(d, b, r, c) ==
    PixelValues[((5 * b + 3 * r + c) % Len(PixelValues)) + 1]

\* size of band b at overview index (0 is full resolution)
BandXSize(d, b, index) ==
    IF index = 0 THEN d.RasterXSize ELSE d.ovsizes[b][index][1]

BandYSize(d, b, index) ==
    IF index = 0 THEN d.RasterYSize ELSE d.ovsizes[b][index][2]

\* the sample of band b at overview index: the full resolution sample
\* under the top left corner of the overview pixel
BandPixelAt(d, b, index, r, c) ==
    IF index = 0 THEN PixelAt(d, b, r, c)
    ELSE PixelAt(d, b,
             Min2((r * d.RasterYSize) \div BandYSize(d, b, index),
                  d.RasterYSize - 1),
             Min2((c * d.RasterXSize) \div BandXSize(d, b, index),
                  d.RasterXSize - 1))

\* a 2-d array of ysize rows and xsize columns holding f[r][c] at (r, c)
Arr(h, w, f) ==
    [ysize |-> h, xsize |-> w,
     pix |-> [r \in 0..(h - 1) |-> [c \in 0..(w - 1) |-> f[r][c]] @@ <<>>]
                 @@ <<>>]

\* band.ReadAsArray(xoff, yoff, win_xsize, win_ysize, buf_xsize, buf_ysize):
\* nearest neighbour sampling of the window into the buffer; a window or
\* buffer without pixels is skipped and leaves the buffer as allocated
ReadAsArray(d, b, index, xoff, yoff, wx, wy, bx, by, garbage) ==
    IF wx < 1 \/ wy < 1 \/ bx < 1 \/ by < 1
    THEN Arr(Max2(by, 0), Max2(bx, 0), [r \in Nat |-> [c \in Nat |-> garbage]])
    ELSE Arr(by, bx, [r \in Nat |-> [c \in Nat |->
             BandPixelAt(d, b, index,
                 yoff + ((2 * r + 1) * wy) \div (2 * by),
                 xoff + ((2 * c + 1) * wx) \div (2 * bx))]])

\* the raster store refuses a window that is not inside the band
WindowInBand(d, b, index, xoff, yoff, wx, wy) ==
    /\ xoff >= 0 /\ yoff >= 0 /\ wx >= 0 /\ wy >= 0
    /\ xoff + wx <= BandXSize(d, b, index)
    /\ yoff + wy <= BandYSize(d, b, index)

\* gdal.ApplyGeoTransform
ApplyGeoTransform(gt, x, y) ==
    <<RAdd(gt[1], RAdd(RMul(x, gt[2]), RMul(y, gt[3]))),
      RAdd(gt[4], RAdd(RMul(x, gt[5]), RMul(y, gt[6])))>>

\* gdal.InvGeoTransform
InvGeoTransform(gt) ==
    LET det == RSub(RMul(gt[2], gt[6]), RMul(gt[3], gt[5]))
    IN  <<RDiv(RSub(RMul(gt[3], gt[4]), RMul(gt[1], gt[6])), det),
          RDiv(gt[6], det),
          RDiv(RSub(RInt(0), gt[3]), det),
          RDiv(RSub(RMul(gt[1], gt[5]), RMul(gt[2], gt[4])), det),
          RDiv(RSub(RInt(0), gt[5]), det),
          RDiv(gt[2], det)>>

(***************************************************************************)
(* Web mercator grid.  Projected coordinates are in units of the zoom 0    *)
(* resolution, 78271.516 m.                                                *)
(***************************************************************************)
MERCATOR_TILE_SIZE == 512

MERCATOR_X_ORIGIN == RInt(-256)

MERCATOR_Y_ORIGIN == RInt(256)

getExtentforWebMTile(z, x, y) ==
    LET units_per_pixel == RDiv(RInt(1), RInt(2 ^ z))
        tile_size == RMul(units_per_pixel, RInt(MERCATOR_TILE_SIZE))
        tlx == RAdd(MERCATOR_X_ORIGIN, RMul(tile_size, RInt(x)))
        tly == RSub(MERCATOR_Y_ORIGIN, RMul(tile_size, RInt(y)))
    IN  [tlx |-> tlx, tly |-> tly,
         brx |-> RAdd(tlx, tile_size), bry |-> RSub(tly, tile_size)]

(***************************************************************************)
(* OverviewManager                                                         *)
(***************************************************************************)
OverviewInfo(xsize, ysize, fullrespixperpix, index) ==
    [xsize |-> xsize, ysize |-> ysize,
     fullrespixperpix |-> fullrespixperpix, index |-> index]

\* the list as it was appended to
SortByArea_unsorted(ovs) == ovs

\* list.sort(key = area, reverse = True): stable, biggest area first
RECURSIVE SortByArea(_)
SortByArea(ovs) ==
    IF Len(ovs) <= 1 THEN ovs
    ELSE LET last == ovs[Len(ovs)]
             init == SortByArea(SubSeq(ovs, 1, Len(ovs) - 1))
             area(o) == o.xsize * o.ysize
             \* last goes after every element that is at least as big
             k == Cardinality({i \in 1..Len(init) : area(init[i]) >= area(last)})
         IN  SubSeq(init, 1, k) \o <<last>> \o SubSeq(init, k + 1, Len(init))

\* err is "AttributeError" when a listed band has no overview at an index
\* the first band has: GetOverview returns None there
loadOverviewInfo(d, bands) ==
    LET full  == OverviewInfo(d.RasterXSize, d.RasterYSize, RInt(1), 0)
        first == d.ovsizes[bands[1]]
        count == Len(first)
        Missing(i, j) == Len(d.ovsizes[bands[j]]) < i
        Differs(i, j) == d.ovsizes[bands[j]][i] # first[i]
        \* the first of the other bands that stops the inner loop
        Stops(i) == {j \in 2..Len(bands) : Missing(i, j) \/ Differs(i, j)}
        FirstStop(i) == CHOOSE j \in Stops(i) : \A k \in Stops(i) : j <= k
        Fails(i) == Stops(i) # {} /\ Missing(i, FirstStop(i))
        overviewok(i) == Stops(i) = {}
        all == [i \in 1..count |->
                   OverviewInfo(first[i][1], first[i][2],
                       Rat(d.RasterXSize, first[i][1]), i)]
        kept == SelectSeq(all, LAMBDA o : overviewok(o.index))
    IN  IF \E i \in 1..count : Fails(i)
        THEN [err |-> "AttributeError", overviews |-> <<full>>]
        ELSE [err |-> "none", overviews |-> SortByArea(<<full>> \o kept)]

\* the level at which the loop stops, if it stops
findBestOverview_toofar(overviews, imgpixperwinpix) ==
    LET toofar == {k \in 2..Len(overviews) :
                      RLt(imgpixperwinpix, overviews[k].fullrespixperpix)}
    IN  IF toofar = {} THEN overviews[Len(overviews)]
        ELSE overviews[CHOOSE k \in toofar : \A j \in toofar : k <= j]

findBestOverview(overviews, imgpixperwinpix) ==
    LET toofar == {k \in 2..Len(overviews) :
                      RLt(imgpixperwinpix, overviews[k].fullrespixperpix)}
        stop == IF toofar = {} THEN Len(overviews) + 1
                ELSE CHOOSE k \in toofar : \A j \in toofar : k <= j
    IN  overviews[stop - 1]

\* Metadata.__init__
Metadata(d) ==
    LET ovm == loadOverviewInfo(d, [b \in 1..d.RasterCount |-> b])
    IN  [err |-> ovm.err,
         RasterXSize |-> d.RasterXSize, RasterYSize |-> d.RasterYSize,
         RasterCount |-> d.RasterCount, transform |-> d.transform,
         allIgnore |-> d.nodata, overviews |-> ovm.overviews,
         tInverse |-> InvGeoTransform(d.transform)]

pixel2displayF(col, row, origCol, origRow, imgPixPerWinPix) ==
    <<RDiv(RSub(col, origCol), imgPixPerWinPix),
      RDiv(RSub(row, origRow), imgPixPerWinPix)>>

\* the display pixel after the coordinate
pixel2display_ceil(col, row, origCol, origRow, imgPixPerWinPix) ==
    <<RCeil(RDiv(RSub(col, origCol), imgPixPerWinPix)),
      RCeil(RDiv(RSub(row, origRow), imgPixPerWinPix))>>

pixel2display(col, row, origCol, origRow, imgPixPerWinPix) ==
    <<RTrunc(RDiv(RSub(col, origCol), imgPixPerWinPix)),
      RTrunc(RDiv(RSub(row, origRow), imgPixPerWinPix))>>

(***************************************************************************)
(* resamplerhelper                                                         *)
(***************************************************************************)
\* int(numpy.ceil(n * (float(num) / float(den)))) for n, den > 0
CeilProd(n, num, den) ==
    IF num >= 0 THEN CeilOfProd(n, num, den) ELSE -FloorProd(n, -num, den)

\* i * (n / float(count)) cast to an integer (truncation), n, count > 0
TruncProd(i, n, count) ==
    IF i >= 0 THEN FloorProd(i, n, count) ELSE -FloorProd(-i, n, count)

\* the whole axis
PySlice_whole(start, stop, n) == <<0, n>>

\* the indices a[start:stop] selects from an axis of n elements
PySlice(start, stop, n) ==
    LET norm(v) == IF v < 0 THEN Max2(v + n, 0) ELSE Min2(v, n)
    IN  <<norm(start), Max2(norm(stop), norm(start))>>

\* the lookup with the rows counted from the last one
replicatePick_flipped(arr, row, col, ys, xs) ==
    [err |-> "none",
     arr |-> Arr(ys[2] - ys[1], xs[2] - xs[1],
                 [r \in Nat |-> [c \in Nat |->
                     arr.pix[arr.ysize - 1 - (row[r] % arr.ysize)][col[c] % arr.xsize]]])]

\* lines 67-70: outarr = arr[row, col] and the crop to (ysize, xsize)
replicatePick(arr, row, col, ys, xs) ==
    IF \/ \E k \in DOMAIN row : ~(-arr.ysize <= row[k] /\ row[k] < arr.ysize)
       \/ \E k \in DOMAIN col : ~(-arr.xsize <= col[k] /\ col[k] < arr.xsize)
    THEN [err |-> "IndexError", arr |-> None]
    ELSE [err |-> "none",
          arr |-> Arr(ys[2] - ys[1], xs[2] - xs[1],
                      [r \in Nat |-> [c \in Nat |->
                          arr.pix[row[r] % arr.ysize][col[c] % arr.xsize]]])]

\* lines 57-72: the index grids are scaled, truncated and used to pick the
\* samples; rowCount and colCount are the sizes computed at lines 50-51
replicateGrid(arr, ysize, xsize, dspLeftExtra, dspTopExtra, rowCount, colCount, gridRows, gridCols) ==
    LET nrows == arr.ysize
        ncols == arr.xsize
        row == [k \in 0..(gridRows - 1) |->
                   TruncProd(dspTopExtra + k, nrows, rowCount)] @@ <<>>
        col == [k \in 0..(gridCols - 1) |->
                   TruncProd(dspLeftExtra + k, ncols, colCount)] @@ <<>>
    IN  replicatePick(arr, row, col, PySlice(0, ysize, gridRows),
                      PySlice(0, xsize, gridCols))

\* lines 57-58: numpy.mgrid[top:rowCount - bottom, left:colCount - right]
replicateCounted(arr, ysize, xsize, dspLeftExtra, dspTopExtra, dspRightExtra, dspBottomExtra, rowCount, colCount) ==
    IF rowCount <= 0 \/ colCount <= 0
    THEN [err |-> "ZeroDivisionError", arr |-> None]
    ELSE replicateGrid(arr, ysize, xsize, dspLeftExtra, dspTopExtra,
             rowCount, colCount,
             Max2(rowCount - dspBottomExtra - dspTopExtra, 0),
             Max2(colCount - dspRightExtra - dspLeftExtra, 0))

\* nearest neighbour
replicateArray(arr, outsize, dspLeftExtra, dspTopExtra, dspRightExtra, dspBottomExtra, ignore) ==
    IF arr.ysize = 0 \/ arr.xsize = 0
    THEN [err |-> "ZeroDivisionError", arr |-> None]
    ELSE replicateCounted(arr, outsize[1], outsize[2], dspLeftExtra,
             dspTopExtra, dspRightExtra, dspBottomExtra,
             CeilProd(arr.ysize, outsize[1] + dspTopExtra + dspBottomExtra,
                      arr.ysize),
             CeilProd(arr.xsize, outsize[2] + dspLeftExtra + dspRightExtra,
                      arr.xsize))

\* resampler.bilinear: the native kernel.  Sample centres of the output are
\* mapped onto the input and the four neighbours are blended.
bilinear(arr, ignore, colCount, rowCount) ==
    LET nrows == arr.ysize
        ncols == arr.xsize
        half == Rat(1, 2)
        pos(i, n, count) ==
            RMax(RInt(0), RMin(RInt(n - 1),
                RSub(RMul(RAdd(RInt(i), half), Rat(n, count)), half)))
        blend(a, b, f) == RAdd(RMul(RSub(RInt(1), f), a), RMul(f, b))
        at(r, c) ==
            LET sy == pos(r, nrows, rowCount)
                sx == pos(c, ncols, colCount)
                r0 == RFloor(sy)
                c0 == RFloor(sx)
                r1 == Min2(r0 + 1, nrows - 1)
                c1 == Min2(c0 + 1, ncols - 1)
                fy == RSub(sy, RInt(r0))
                fx == RSub(sx, RInt(c0))
                upper == blend(RInt(arr.pix[r0][c0]), RInt(arr.pix[r0][c1]), fx)
                lower == blend(RInt(arr.pix[r1][c0]), RInt(arr.pix[r1][c1]), fx)
            IN  RTrunc(blend(upper, lower, fy))
    IN  IF nrows = 0 \/ ncols = 0 \/ rowCount <= 0 \/ colCount <= 0
        THEN [err |-> "ResampleError", arr |-> None]
        ELSE [err |-> "none", arr |-> Arr(rowCount, colCount,
                            [r \in Nat |-> [c \in Nat |-> at(r, c)]])]

\* line 118: outarr[top:rowCount - bottom, left:colCount - right]
bilinearCrop(outarr, ys, xs) ==
    IF outarr.err # "none" THEN outarr
    ELSE [err |-> "none",
          arr |-> Arr(ys[2] - ys[1], xs[2] - xs[1], [r \in Nat |-> [c \in Nat |->
                     outarr.arr.pix[ys[1] + r][xs[1] + c]]])]

\* lines 113-118 for the sizes rowCount and colCount of lines 113-114
bilinearSized(arr, dspLeftExtra, dspTopExtra, dspRightExtra, dspBottomExtra, ignore, rowCount, colCount) ==
    bilinearCrop(bilinear(arr, ignore, colCount, rowCount),
                 PySlice(dspTopExtra, rowCount - dspBottomExtra, rowCount),
                 PySlice(dspLeftExtra, colCount - dspRightExtra, colCount))

bilinearResample(arr, outsize, dspLeftExtra, dspTopExtra, dspRightExtra, dspBottomExtra, ignore) ==
    bilinearSized(arr, dspLeftExtra, dspTopExtra, dspRightExtra,
                  dspBottomExtra, ignore,
                  outsize[1] + dspTopExtra + dspBottomExtra,
                  outsize[2] + dspLeftExtra + dspRightExtra)

\* a table that offers every name
RESAMPLE_METHODS_open == ResamplingNames

RESAMPLE_METHODS == {"near", "bilinear"}

resampleMethod(name, arr, outsize, l, t, r, b, ignore) ==
    IF name = "near" THEN replicateArray(arr, outsize, l, t, r, b, ignore)
    ELSE bilinearResample(arr, outsize, l, t, r, b, ignore)

(***************************************************************************)
(* getRawImageChunk                                                        *)
(***************************************************************************)
\* a margin of one pixel on every side, whatever the room
MarginsForResample_always(resampling, ovleft, ovtop, ovxsize, ovysize, bandXSize, bandYSize) ==
    [err |-> "none", left |-> 1, right |-> 1, top |-> 1, bottom |-> 1]

MarginsForResample(resampling, ovleft, ovtop, ovxsize, ovysize, bandXSize, bandYSize) ==
    IF resampling = "bilinear"
    THEN [err |-> "none",
          left |-> Min2(1, ovleft),
          right |-> Min2(1, bandXSize - (ovleft + ovxsize)),
          top |-> Min2(1, ovtop),
          bottom |-> Min2(1, bandYSize - (ovtop + ovysize))]
    ELSE IF resampling = "near"
    THEN [err |-> "none", left |-> 0, right |-> 0, top |-> 0, bottom |-> 0]
    ELSE [err |-> "UnknownResample", left |-> 0, right |-> 0, top |-> 0,
          bottom |-> 0]

\* a test that asks for the tile to be off the raster on both axes
Outside_bothAxes(origPixLeft, origPixTop, origPixRight, origPixBottom, xmax, ymax) ==
    /\ \/ RLt(origPixTop, RInt(0)) /\ RLt(origPixBottom, RInt(0))
       \/ RLt(ymax, origPixTop) /\ RLt(ymax, origPixBottom)
    /\ \/ RLt(origPixLeft, RInt(0)) /\ RLt(origPixRight, RInt(0))
       \/ RLt(xmax, origPixLeft) /\ RLt(xmax, origPixRight)

\* lines 692-702: the tile is off the raster
Outside(origPixLeft, origPixTop, origPixRight, origPixBottom, xmax, ymax) ==
    \/ RLt(origPixTop, RInt(0)) /\ RLt(origPixBottom, RInt(0))
    \/ RLt(origPixLeft, RInt(0)) /\ RLt(origPixRight, RInt(0))
    \/ RLt(xmax, origPixLeft) /\ RLt(xmax, origPixRight)
    \/ RLt(ymax, origPixTop) /\ RLt(ymax, origPixBottom)

\* The plan of a chunk: the overview, the source window and the place of
\* the data in the tile (lines 680-761).
ChunkPlan(md, xsize, ysize, ext) ==
    LET imgPix_x == RDiv(RSub(ext.brx, ext.tlx), md.transform[2])
        imgPix_y == RDiv(RSub(ext.bry, ext.tly), md.transform[6])
        orig == ApplyGeoTransform(md.tInverse, ext.tlx, ext.tly)
        origPixLeft == orig[1]
        origPixTop == orig[2]
        origPixRight == RAdd(origPixLeft, imgPix_x)
        origPixBottom == RAdd(origPixTop, imgPix_y)
        imgPixPerWinPix == RDiv(RSub(origPixRight, origPixLeft), RInt(xsize))
        selectedovi == findBestOverview(md.overviews, imgPixPerWinPix)
        zero == RInt(0)
        xmax == RInt(md.RasterXSize)
        ymax == RInt(md.RasterYSize)
        outside == Outside(origPixLeft, origPixTop, origPixRight,
                           origPixBottom, xmax, ymax)
        fullrespixperovpix == selectedovi.fullrespixperpix
        pixTop == RMax(origPixTop, zero)
        pixLeft == RMax(origPixLeft, zero)
        pixBottom == RMin(origPixBottom, ymax)
        pixRight == RMin(origPixRight, xmax)
        ovtop == Max2(RTrunc(RDiv(pixTop, fullrespixperovpix)), 0)
        ovleft == Max2(RTrunc(RDiv(pixLeft, fullrespixperovpix)), 0)
        ovbottom == Min2(RCeil(RDiv(pixBottom, fullrespixperovpix)),
                         selectedovi.ysize)
        ovright == Min2(RCeil(RDiv(pixRight, fullrespixperovpix)),
                        selectedovi.xsize)
        dspTL == pixel2displayF(pixLeft, pixTop, origPixLeft, origPixTop,
                                imgPixPerWinPix)
        dspBR == pixel2displayF(pixRight, pixBottom, origPixLeft, origPixTop,
                                imgPixPerWinPix)
        dspRastLeft == RRound(dspTL[1])
        dspRastTop == RRound(dspTL[2])
        dspRastRight == RRound(dspBR[1])
        dspRastBottom == RRound(dspBR[2])
        dspAbsTL == pixel2display(RInt(RFloor(pixLeft)), RInt(RFloor(pixTop)),
                                  origPixLeft, origPixTop, imgPixPerWinPix)
        dspAbsBR == pixel2display(RInt(RCeil(pixRight)), RInt(RCeil(pixBottom)),
                                  origPixLeft, origPixTop, imgPixPerWinPix)
        extra(d) == RTrunc(RDiv(RInt(d), fullrespixperovpix))
    IN  [outside |-> outside,
         imgPixPerWinPix |-> imgPixPerWinPix,
         selectedovi |-> selectedovi,
         pixLeft |-> pixLeft, pixTop |-> pixTop,
         pixRight |-> pixRight, pixBottom |-> pixBottom,
         ovleft |-> ovleft, ovtop |-> ovtop,
         ovright |-> ovright, ovbottom |-> ovbottom,
         ovxsize |-> ovright - ovleft, ovysize |-> ovbottom - ovtop,
         dspRastLeft |-> dspRastLeft, dspRastTop |-> dspRastTop,
         dspRastXSize |-> dspRastRight - dspRastLeft,
         dspRastYSize |-> dspRastBottom - dspRastTop,
         dspLeftExtra |-> extra(dspRastLeft - dspAbsTL[1]),
         dspTopExtra |-> extra(dspRastTop - dspAbsTL[2]),
         dspRightExtra |-> Max2(extra(dspAbsBR[1] - dspRastRight), 0),
         dspBottomExtra |-> Max2(extra(dspAbsBR[2] - dspRastBottom), 0)]

\* a window distance in overview pixels as display pixels (lines 783-786)
ScaledMargin(m, ratio) == RRound(RDiv(RInt(m), ratio))

\* lines 769-772: the band is read straight at the size of the display
ReadDirect(d, rd, garbage) ==
    IF ~WindowInBand(d, rd.band, rd.index, rd.xoff, rd.yoff, rd.xsize, rd.ysize)
          \/ rd.buf_xsize < 0 \/ rd.buf_ysize < 0
    THEN [err |-> "RasterIOError", reads |-> <<rd>>, arr |-> None]
    ELSE [err |-> "none", reads |-> <<rd>>,
          arr |-> ReadAsArray(d, rd.band, rd.index, rd.xoff, rd.yoff, rd.xsize,
                      rd.ysize, rd.buf_xsize, rd.buf_ysize, garbage)]

\* lines 781-790: the outcome of the resampling is the data of the band
ResampledBand(rd, res) == [err |-> res.err, reads |-> <<rd>>, arr |-> res.arr]

\* lines 776-788: the window with its margins is read and resampled
ReadResampled(d, md, plan, resampling, garbage, marg, rd) ==
    IF ~WindowInBand(d, rd.band, rd.index, rd.xoff, rd.yoff, rd.xsize, rd.ysize)
    THEN [err |-> "RasterIOError", reads |-> <<rd>>, arr |-> None]
    ELSE ResampledBand(rd,
             resampleMethod(resampling,
                 ReadAsArray(d, rd.band, rd.index, rd.xoff, rd.yoff, rd.xsize,
                     rd.ysize, rd.buf_xsize, rd.buf_ysize, garbage),
                 <<plan.dspRastYSize, plan.dspRastXSize>>,
                 plan.dspLeftExtra
                     + ScaledMargin(marg.left, plan.imgPixPerWinPix),
                 plan.dspTopExtra
                     + ScaledMargin(marg.top, plan.imgPixPerWinPix),
                 plan.dspRightExtra
                     + ScaledMargin(marg.right, plan.imgPixPerWinPix),
                 plan.dspBottomExtra
                     + ScaledMargin(marg.bottom, plan.imgPixPerWinPix),
                 md.allIgnore[rd.band]))

\* lines 773-788: the margins the resampling asks for widen the window
ReadWithMargins(d, md, plan, bandnum, resampling, garbage, marg) ==
    IF marg.err # "none"
    THEN [err |-> marg.err, reads |-> <<>>, arr |-> None]
    ELSE ReadResampled(d, md, plan, resampling, garbage, marg,
             [band |-> bandnum, index |-> plan.selectedovi.index,
              xoff |-> plan.ovleft - marg.left,
              yoff |-> plan.ovtop - marg.top,
              xsize |-> plan.ovxsize + marg.left + marg.right,
              ysize |-> plan.ovysize + marg.top + marg.bottom,
              buf_xsize |-> plan.ovxsize + marg.left + marg.right,
              buf_ysize |-> plan.ovysize + marg.top + marg.bottom])

\* One pass of the loop over the bands (lines 764-790): the read issued and
\* the data of the band.
ReadBand(d, md, plan, bandnum, resampling, garbage) ==
    IF plan.selectedovi.index > 0
          /\ Len(d.ovsizes[bandnum]) < plan.selectedovi.index
    THEN [err |-> "AttributeError", reads |-> <<>>, arr |-> None]
    ELSE IF RLe(RInt(1), plan.imgPixPerWinPix)
    THEN ReadDirect(d, [band |-> bandnum, index |-> plan.selectedovi.index,
                        xoff |-> plan.ovleft, yoff |-> plan.ovtop,
                        xsize |-> plan.ovxsize, ysize |-> plan.ovysize,
                        buf_xsize |-> plan.dspRastXSize,
                        buf_ysize |-> plan.dspRastYSize], garbage)
    ELSE ReadWithMargins(d, md, plan, bandnum, resampling, garbage,
             MarginsForResample(resampling, plan.ovleft, plan.ovtop,
                 plan.ovxsize, plan.ovysize,
                 BandXSize(d, bandnum, plan.selectedovi.index),
                 BandYSize(d, bandnum, plan.selectedovi.index)))

\* the reads issued by the passes up to the one that ends the loop
IssuedReads(results, upto) ==
    [i \in 1..Len(SelectSeq(SubSeq(results, 1, upto),
                            LAMBDA r : r.reads # <<>>)) |->
        SelectSeq(SubSeq(results, 1, upto), LAMBDA r : r.reads # <<>>)[i].reads[1]]
    \o <<>>

\* lines 792-799: the loop stops at the first band that raises (bad is the
\* set of such passes); otherwise the arrays are stacked and returned
ChunkOfBands(plan, results, bad) ==
    IF bad # {}
    THEN [err |-> results[CHOOSE i \in bad : \A j \in bad : i <= j].err,
          data |-> None, dataslice |-> None,
          reads |-> IssuedReads(results,
                        CHOOSE i \in bad : \A j \in bad : i <= j)]
    ELSE [err |-> "none",
          data |-> Some([ndim |-> IF Len(results) = 1 THEN 2 ELSE 3,
                         bands |-> [i \in 1..Len(results) |-> results[i].arr]]),
          dataslice |-> Some([top |-> plan.dspRastTop,
                         bottom |-> plan.dspRastTop + plan.dspRastYSize,
                         left |-> plan.dspRastLeft,
                         right |-> plan.dspRastLeft + plan.dspRastXSize]),
          reads |-> IssuedReads(results, Len(results))]

ChunkOfResults(plan, results) ==
    ChunkOfBands(plan, results,
                 {i \in 1..Len(results) : results[i].err # "none"})

\* lines 692-799 for the plan of lines 680-761
ChunkOfPlan(d, md, plan, bands, resampling, garbage) ==
    IF plan.outside
    THEN [err |-> "none", data |-> None, dataslice |-> None, reads |-> <<>>]
    ELSE ChunkOfResults(plan,
             [i \in 1..Len(bands) |->
                 ReadBand(d, md, plan, bands[i], resampling, garbage)] \o <<>>)

\* err, the data (None, or the arrays of the bands: a 2-d array for one
\* band, else a 3-d one), the slice of the tile the data goes to and the
\* reads issued to the raster store, in order
getRawImageChunk(d, md, xsize, ysize, ext, bands, resampling, garbage) ==
    IF resampling \notin RESAMPLE_METHODS
    THEN [err |-> "UnknownResample", data |-> None, dataslice |-> None,
          reads |-> <<>>]
    ELSE ChunkOfPlan(d, md, ChunkPlan(md, xsize, ysize, ext), bands,
                     resampling, garbage)

(***************************************************************************)
(* getTile                                                                 *)
(***************************************************************************)
VARIABLES
    ds,           \* the dataset the tiles are cut from
    pc,           \* where the call of getTile stands
    req,          \* the arguments of the call
    bands,        \* the band list read (line 101)
    numOutBands,  \* bands of the MEM dataset
    metadata,     \* Metadata(ds)
    data,         \* data returned by getRawImageChunk
    dataslice,    \* slice returned by getRawImageChunk
    reads,        \* ReadAsArray calls issued to the raster store
    mem,          \* the MEM dataset written into
    alphaset,
    nodataMask,
    err,          \* the exception raised, "none" if none
    result,       \* the buffer handed to the encoder
    call,         \* the library function called last and its arguments
    ret,          \* what that call returned or raised
    thr,          \* the threads running createBytesIOFromMEM
    vsimem        \* the files of /vsimem, by name

\* what a call of getTile up to the encoder leaves alone
aside == <<call, ret, thr, vsimem>>

vars == <<ds, pc, req, bands, numOutBands, metadata, data, dataslice, reads,
          mem, alphaset, nodataMask, err, result, aside>>

\* the band lists a caller passes: None, or the first n bands
BandArgs(d) ==
    {None} \cup {Some([i \in 1..n |-> i]) : n \in 1..d.RasterCount}

RescalingArgs ==
    {None} \cup {Some(SubSeq(RescalePairs, 1, n)) : n \in 1..MaxRescaleLen}

ColormapArgs == {None} \cup {Some(c) : c \in Colormaps}

\* samples an unwritten buffer may hold
GarbageValues == {0}

ZeroImage(size) == [r \in 0..(size - 1) |-> [c \in 0..(size - 1) |-> 0]]

\* imgData[dataslice] = val for a 2-d array val: the image, or the numpy
\* error when val cannot be broadcast to the shape of the slice
SetSlice(img, size, slice, val) ==
    LET ys == PySlice(slice.top, slice.bottom, size)
        xs == PySlice(slice.left, slice.right, size)
        fits == /\ (val.ysize = ys[2] - ys[1] \/ val.ysize = 1)
                /\ (val.xsize = xs[2] - xs[1] \/ val.xsize = 1)
    IN  IF ~fits THEN [err |-> "BroadcastError", img |-> img]
        ELSE [err |-> "none",
              img |-> [r \in 0..(size - 1) |-> [c \in 0..(size - 1) |->
                  IF ys[1] <= r /\ r < ys[2] /\ xs[1] <= c /\ c < xs[2]
                  THEN val.pix[IF val.ysize = 1 THEN 0 ELSE r - ys[1]]
                              [IF val.xsize = 1 THEN 0 ELSE c - xs[1]]
                  ELSE img[r][c]]]]

\* (databand.astype(float) - minVal).clip(min=0) * (maxOutVal / minMaxRange),
\* clipped to [0, maxOutVal] and stored in the integer image, for one sample
\* factor is the double maxOutVal / minMaxRange
RescaleBy(v, minVal, maxVal, maxOutVal, factor) ==
    LET minMaxRange == maxVal - minVal
        shifted == Max2(v - minVal, 0)
    IN  IF minMaxRange < 0 THEN 0
        ELSE Min2(FloorProdBy(shifted, maxOutVal, minMaxRange, factor),
                  maxOutVal)

RescaleValue(v, minVal, maxVal, maxOutVal) ==
    RescaleBy(v, minVal, maxVal, maxOutVal, FlDiv(maxOutVal, maxVal - minVal))

RescaleArr(arr, minVal, maxVal, maxOutVal) ==
    LET factor == FlDiv(maxOutVal, maxVal - minVal)
    IN  Arr(arr.ysize, arr.xsize, [r \in Nat |-> [c \in Nat |->
            RescaleBy(arr.pix[r][c], minVal, maxVal, maxOutVal, factor)]])

\* colormap[n][data]: an index that is not clipped wraps around
ColormapArr_noclip(arr, colormap, n) ==
    LET maxCol == colormap.shape[2]
    IN  Arr(arr.ysize, arr.xsize, [r \in Nat |-> [c \in Nat |->
            colormap.tab[n][arr.pix[r][c] % maxCol]]])

\* colormap[n][data.clip(min=0, max=maxCol - 1)]
ColormapArr(arr, colormap, n) ==
    LET maxCol == colormap.shape[2]
    IN  Arr(arr.ysize, arr.xsize, [r \in Nat |-> [c \in Nat |->
            colormap.tab[n][Min2(Max2(arr.pix[r][c], 0), maxCol - 1)]]])

\* a band stored in an image of the output type
CastArr(arr, maxOutVal) ==
    Arr(arr.ysize, arr.xsize, [r \in Nat |-> [c \in Nat |-> arr.pix[r][c] % (maxOutVal + 1)]])

\* the mask of the bands that have a nodata value, None if none has
NodataMaskOf(dat, nodataForBands) ==
    LET with == {n \in 1..Len(nodataForBands) : nodataForBands[n] # None}
        any == CHOOSE n \in with : TRUE
    IN  IF with = {} THEN None
        ELSE Some(Arr(dat.bands[any].ysize, dat.bands[any].xsize, [r \in Nat |-> [c \in Nat |->
                 \E n \in with : dat.bands[n].pix[r][c] = nodataForBands[n][1]]]))

Init ==
    /\ ds \in Datasets
    /\ pc = "idle"
    /\ req = None
    /\ bands = None
    /\ numOutBands = 0
    /\ metadata = None
    /\ data = None
    /\ dataslice = None
    /\ reads = <<>>
    /\ mem = None
    /\ alphaset = FALSE
    /\ nodataMask = None
    /\ err = "none"
    /\ result = None
    /\ call = None
    /\ ret = None
    /\ thr = <<>>
    /\ vsimem = <<>>

Raise(e) == pc' = "error" /\ err' = e

\* getTile is called: lines 89-112
GetTile(z, x, y, bandsArg, rescaling, colormap, resampling, tileSize, outTileType) ==
    LET md == Metadata(ds)
        b  == IF bandsArg = None THEN [i \in 1..ds.RasterCount |-> i]
              ELSE bandsArg[1]
    IN  /\ pc = "idle"
        /\ req' = [z |-> z, x |-> x, y |-> y, bands |-> bandsArg,
                   rescaling |-> rescaling, colormap |-> colormap,
                   resampling |-> resampling, tileSize |-> tileSize,
                   outTileType |-> outTileType,
                   extent |-> getExtentforWebMTile(z, x, y)]
        /\ IF md.err # "none"
           THEN Raise(md.err) /\ UNCHANGED <<metadata, bands, numOutBands>>
           ELSE /\ metadata' = Some(md)
                /\ IF bandsArg # None /\ Len(b) # 1 /\ Len(b) # 3 /\ Len(b) # 4
                   THEN Raise("InvalidBandCount")
                            /\ UNCHANGED <<bands, numOutBands>>
                   ELSE /\ bands' = Some(b)
                        /\ numOutBands' = IF colormap # None THEN 4
                                          ELSE IF Len(b) = 3 THEN 4
                                          ELSE Len(b)
                        /\ pc' = "chunk"
                        /\ err' = err
        /\ UNCHANGED <<aside, ds, data, dataslice, reads, mem, alphaset, nodataMask,
                       result>>

\* lines 114-116
CallGetRawImageChunk(garbage) ==
    /\ pc = "chunk"
    /\ \E r \in {getRawImageChunk(ds, metadata[1], req.tileSize, req.tileSize,
                     req.extent, bands[1], req.resampling, garbage)} :
          /\ reads' = r.reads
          /\ IF r.err # "none"
             THEN Raise(r.err) /\ UNCHANGED <<data, dataslice>>
             ELSE /\ data' = r.data
                  /\ dataslice' = r.dataslice
                  /\ pc' = "render"
                  /\ err' = err
    /\ UNCHANGED <<aside, ds, req, bands, numOutBands, metadata, mem, alphaset,
                   nodataMask, result>>

\* the bands written by the loops of lines 137-202, in order: the arrays
\* assigned to imgData[dataslice]
RenderedBands ==
    LET b == bands[1]
        dat == data[1]
        maxOutVal == IInfoMax(req.outTileType)
    IN  IF req.rescaling # None
        THEN LET rs == req.rescaling[1]
             IN  [n \in 1..Len(b) |->
                     RescaleArr(dat.bands[n],
                         rs[IF Len(rs) = 1 THEN 1 ELSE n][1],
                         rs[IF Len(rs) = 1 THEN 1 ELSE n][2], maxOutVal)]
        ELSE IF req.colormap # None
        THEN [n \in 1..4 |-> ColormapArr(dat.bands[1], req.colormap[1], n - 1)]
        ELSE [n \in 1..Len(b) |-> CastArr(dat.bands[n], maxOutVal)]

\* lines 118-202: the exception raised ("none" if none), the MEM dataset
\* created and written, alphaset and nodataMask
Rendered ==
    LET b == bands[1]
        size == req.tileSize
        nodataForBands == [n \in 1..Len(b) |-> metadata[1].allIgnore[b[n]]]
        created == [nbands |-> numOutBands,
                    pix |-> [n \in 1..numOutBands |-> ZeroImage(size)]]
        rs == req.rescaling[1]
        zerorange == \E n \in 1..Len(rs) : rs[n][1] = rs[n][2]
        imgs == [n \in 1..Len(RenderedBands) |->
                    SetSlice(ZeroImage(size), size, dataslice[1],
                             RenderedBands[n])] \o <<>>
        raised(e) == [err |-> e, mem |-> created, alphaset |-> alphaset,
                      nodataMask |-> nodataMask]
    IN  IF data = None
        THEN \* no data available for this area - return all zeros
             IF numOutBands < 4 THEN raised("IllegalBand")
             ELSE [err |-> "none", mem |-> created, alphaset |-> TRUE,
                   nodataMask |-> None]
        ELSE IF req.rescaling # None /\ Len(rs) # 1 /\ Len(rs) # Len(b)
        THEN raised("RescaleLengthMismatch")
        ELSE IF req.rescaling # None /\ zerorange
        THEN raised("ZeroDivisionError")
        ELSE IF req.rescaling = None /\ req.colormap # None /\ data[1].ndim = 3
        THEN \* a 3-d lookup result does not fit the 2-d slice
             raised("BroadcastError")
        ELSE IF imgs[1].err # "none" THEN raised(imgs[1].err)
        ELSE [err |-> "none",
              mem |-> [created EXCEPT !.pix =
                          [n \in 1..numOutBands |->
                              IF n <= Len(imgs) THEN imgs[n].img
                              ELSE ZeroImage(size)]],
              alphaset |-> IF req.rescaling = None /\ req.colormap # None
                           THEN TRUE ELSE Len(b) >= 4,
              nodataMask |-> IF req.rescaling = None /\ req.colormap # None
                             THEN None
                             ELSE NodataMaskOf(data[1], nodataForBands)]

Render ==
    /\ pc = "render"
    /\ \E out \in {Rendered} :
          /\ mem' = out.mem
          /\ alphaset' = out.alphaset
          /\ nodataMask' = out.nodataMask
          /\ IF out.err # "none" THEN Raise(out.err)
             ELSE pc' = "alpha" /\ err' = err
    /\ UNCHANGED <<aside, ds, req, bands, numOutBands, metadata, data, dataslice,
                   reads, result>>

\* lines 204-210
WriteAlpha ==
    LET size == req.tileSize
        maxOutVal == IInfoMax(req.outTileType)
        mask == nodataMask[1]
    IN  /\ pc = "alpha"
        /\ IF alphaset
           THEN pc' = "encode" /\ UNCHANGED <<mem, err>>
           ELSE IF numOutBands < 4
           THEN Raise("IllegalBand") /\ UNCHANGED mem
           ELSE IF nodataMask # None
           THEN \* band.WriteArray(array) writes at offset (0, 0)
                IF mask.ysize > size \/ mask.xsize > size
                THEN Raise("RasterIOError") /\ UNCHANGED mem
                ELSE /\ mem' = [mem EXCEPT !.pix[4] =
                                   [r \in 0..(size - 1) |-> [c \in 0..(size - 1) |->
                                       IF r < mask.ysize /\ c < mask.xsize
                                       THEN (IF mask.pix[r][c] THEN 0
                                             ELSE maxOutVal)
                                       ELSE mem.pix[4][r][c]]]]
                     /\ pc' = "encode"
                     /\ err' = err
           ELSE /\ mem' = [mem EXCEPT !.pix[4] =
                              [r \in 0..(size - 1) |-> [c \in 0..(size - 1) |->
                                  maxOutVal]]]
                /\ pc' = "encode"
                /\ err' = err
        /\ UNCHANGED <<aside, ds, req, bands, numOutBands, metadata, data, dataslice,
                       reads, alphaset, nodataMask, result>>

\* lines 212-213: the MEM dataset is handed to the encoder
CreateBytesIOFromMEM ==
    /\ pc = "encode"
    /\ result' = Some(mem)
    /\ pc' = "done"
    /\ UNCHANGED <<aside, ds, req, bands, numOutBands, metadata, data, dataslice,
                   reads, mem, alphaset, nodataMask, err>>

\* the call is over: the caller has the tile or the exception
Return ==
    /\ pc \in {"done", "error"}
    /\ pc' = "idle"
    /\ req' = None
    /\ bands' = None
    /\ numOutBands' = 0
    /\ metadata' = None
    /\ data' = None
    /\ dataslice' = None
    /\ reads' = <<>>
    /\ mem' = None
    /\ alphaset' = FALSE
    /\ nodataMask' = None
    /\ err' = "none"
    /\ result' = None
    /\ UNCHANGED <<aside, ds>>

Next ==
    \/ \E z \in Zooms, x \in TileIndices, y \in TileIndices,
          bandsArg \in BandArgs(ds), rescaling \in RescalingArgs,
          colormap \in ColormapArgs, resampling \in ResamplingNames,
          tileSize \in TileSizes, outTileType \in OutTileTypes :
          GetTile(z, x, y, bandsArg, rescaling, colormap, resampling, tileSize,
                  outTileType)
    \/ \E garbage \in GarbageValues : CallGetRawImageChunk(garbage)
    \/ Render
    \/ WriteAlpha
    \/ CreateBytesIOFromMEM
    \/ Return

Spec == Init /\ [][Next]_vars

(***************************************************************************)
(* The helper functions of the library, called on their own.              *)
(***************************************************************************)
\* interval bounds and control values run over 0..MaxPixVal
MaxPixVal == 3

\* interval lists have up to MaxIntervals entries
MaxIntervals == 2

White == <<255, 255, 255, 255>>

Red == <<215, 25, 28, 255>>

Colours == {White, Red}

\* what the cells of numpy.empty may hold: cell (n, k) of a table holds the
\* byte at position n + 4 * k of the pattern, repeated
EmptyPatterns == {<<0>>, <<7, 13, 99>>}

EmptyCell(pattern, n, k) == pattern[((n + 4 * k) % Len(pattern)) + 1]

\* the intervals of the scenario of the tests: 0 is white, 1..99 is red
ScenarioIntervals == <<<<<<0, 0>>, White>>, <<<<1, 100>>, Red>>>>

IntervalArgs ==
    {<<>>, ScenarioIntervals} \cup
    UNION {[1..n -> ((0..MaxPixVal) \X (0..MaxPixVal)) \X Colours] :
              n \in 1..MaxIntervals}

\* result[idx, minVal:maxVal] = col reaches column k of a table of K
\* columns, the column after the last index filled as well
IntervalCovers_closed(values, k, K) ==
    PySlice(values[1], values[2] + 1, K)[1] <= k
        /\ k < PySlice(values[1], values[2] + 1, K)[2]

\* result[idx, minVal:maxVal] = col reaches column k of a table of K columns
IntervalCovers(values, k, K) ==
    PySlice(values[1], values[2], K)[1] <= k
        /\ k < PySlice(values[1], values[2], K)[2]

\* the intervals whose assignment (line 280) reaches column k
CoveringIntervals(intervals, k, K) ==
    {j \in 1..Len(intervals) : IntervalCovers(intervals[j][1], k, K)}

\* the last assignment that reached the cell decides it
FilledCell(intervals, covering, n, unset) ==
    IF covering = {} THEN unset
    ELSE intervals[CHOOSE j \in covering : \A i \in covering : i <= j][2][n + 1]

\* lines 275-281 for the width maxVal of the last interval
IntervalTable(intervals, maxVal, pattern) ==
    IF maxVal < 0 THEN [err |-> "ValueError", colormap |-> None]
    ELSE [err |-> "none",
          colormap |-> Some(
              [shape |-> <<4, maxVal>>,
               tab |-> [n \in 0..3 |-> [k \in 0..(maxVal - 1) |->
                           FilledCell(intervals,
                               CoveringIntervals(intervals, k, maxVal), n,
                               EmptyCell(pattern, n, k))]]])]

\* pattern is what the table of numpy.empty holds before it is filled
createColorMapFromIntervals(intervals, pattern) ==
    IF intervals = <<>> THEN [err |-> "IndexError", colormap |-> None]
    ELSE IntervalTable(intervals, intervals[Len(intervals)][1][2], pattern)

\* control point lists have up to MaxPoints entries
MaxPoints == 3

\* values of the control points
PointValues == {0, 1, 7, 14}

\* colours of the control points
PointColours == {<<0, 3, 4, 255>>, <<122, 125, 126, 255>>, <<61, 25, 130, 0>>}

\* the lists of control points sorted by strictly increasing value
PointArgs ==
    {pts \in UNION {[1..n -> PointValues \X PointColours] : n \in 1..MaxPoints} :
        \A j \in 1..(Len(pts) - 1) : pts[j][1] < pts[j + 1][1]}

\* by how many units in its last place the double f lies above the integer
\* below it, for a double next to an integer below 2^9
UlpsAbove(f) == BitsNat(SubSeq(f.m, MantBits - 19, MantBits))

\* the distance of the double f from the integer q next to it, in units of
\* the last place of f: negative when f is below q
UlpsFrom(f, q) ==
    IF FlTrunc(f) = q THEN UlpsAbove(f) ELSE UlpsAbove(f) - 2 ^ 20

\* log2 of half the distance between the integer N > 0 and the double
\* below it
HalfGapBelow(N) ==
    IF N = 2 ^ (BitLen(N) - 1) THEN BitLen(N) - 55 ELSE BitLen(N) - 54

\* whether the double sum of y0 and a double that lies ulps units of 2^e
\* off an integer, the exact sum being the integer N, is less than N
SumBelow(N, ulps, e) ==
    /\ ulps < 0
    /\ \/ HalfGapBelow(N) < e
       \/ -ulps > 2 ^ (HalfGapBelow(N) - e)

\* int(slope * k + y0) for the product prod of k and the double slope of
\* sign sgn, when the exact value is the integer N
InterpWhole(N, prod, q, sgn) ==
    IF SumBelow(N, sgn * UlpsFrom(prod, q), prod.e) THEN N - 1 ELSE N

\* line 312-313 between two control points dx apart with values y0 and y1,
\* k places after the first: slope * (x - xp[j]) + fp[j] in doubles, stored
\* in the uint8 table (truncated).  The doubles decide the integer part only
\* when the exact value is whole and the slope is not a double.
InterpBetween(y0, y1, dx, k) ==
    IF (k * Abs(y1 - y0)) % dx # 0 \/ y1 = y0 \/ ExactQuotient(Abs(y1 - y0), dx)
    THEN (y0 * dx + k * (y1 - y0)) \div dx
    ELSE InterpWhole(y0 + (k * (y1 - y0)) \div dx,
                     FlMulNat(k, FlDiv(Abs(y1 - y0), dx)),
                     (k * Abs(y1 - y0)) \div dx,
                     IF y1 > y0 THEN 1 ELSE -1)

\* numpy.interp at x for the control points from the j-th on, j the last
\* one with a value <= x
InterpFrom(points, j, n, x) ==
    IF j = Len(points) \/ points[j][1] = x THEN points[j][2][n + 1]
    ELSE InterpBetween(points[j][2][n + 1], points[j + 1][2][n + 1],
                       points[j + 1][1] - points[j][1], x - points[j][1])

\* numpy.interp(xinterp, xobs, yobs) at x for channel n, cast to uint8
InterpCell(points, n, x) ==
    IF x < points[1][1] THEN points[1][2][n + 1]
    ELSE InterpFrom(points,
             CHOOSE j \in 1..Len(points) :
                 /\ points[j][1] <= x
                 /\ \A i \in 1..Len(points) : points[i][1] <= x => i <= j,
             n, x)

\* points sorted by strictly increasing value
createColorMapFromPoints(points) ==
    IF points = <<>> THEN [err |-> "IndexError", colormap |-> None]
    ELSE [err |-> "none",
          colormap |-> Some(
              [shape |-> <<4, points[Len(points)][1] + 1>>,
               tab |-> [n \in 0..3 |-> [k \in 0..points[Len(points)][1] |->
                           InterpCell(points, n, k)]]])]

(***************************************************************************)
(* getExtentforWebMTile in doubles.  For a zoom z the values are held as    *)
(* integers in units of 2^-(28 + z) m, a sign and a magnitude of WLimbs     *)
(* limbs of LimbBits bits, least significant limb first; a double is such  *)
(* a value of at most MantBits significant bits.                           *)
(***************************************************************************)
WLimbs == 7 + 1

\* zoom levels 0..MaxZoom are asked for
MaxZoom == 4

\* the double 78271.516, times 2^37: 10757555245706904
UNITS_PER_PIXEL_0 == <<1688, 589, 524, 1016, 611, 0, 0, 0>>

\* the double 20037508.342789244, times 2^28: 5378777689100435
MERCATOR_ORIGIN == <<147, 1922, 277, 1532, 305, 0, 0, 0>>

\* x * w from limb k on, x < 2^19
RECURSIVE WMulFrom(_, _, _, _)
WMulFrom(x, w, k, carry) ==
    IF k = WLimbs THEN <<x * w[k] + carry>>
    ELSE <<(x * w[k] + carry) % LimbBase>>
             \o WMulFrom(x, w, k + 1, (x * w[k] + carry) \div LimbBase)

WMul(x, w) == WMulFrom(x, w, 1, 0)

RECURSIVE WAddFrom(_, _, _, _)
WAddFrom(a, b, k, carry) ==
    IF k = WLimbs THEN <<a[k] + b[k] + carry>>
    ELSE <<(a[k] + b[k] + carry) % LimbBase>>
             \o WAddFrom(a, b, k + 1, (a[k] + b[k] + carry) \div LimbBase)

WAdd(a, b) == WAddFrom(a, b, 1, 0)

\* a - b from limb k on, for a >= b
RECURSIVE WSubFrom(_, _, _, _)
WSubFrom(a, b, k, borrow) ==
    IF k = WLimbs THEN <<a[k] - b[k] - borrow>>
    ELSE <<(a[k] - b[k] - borrow + LimbBase) % LimbBase>>
             \o WSubFrom(a, b, k + 1, IF a[k] - b[k] - borrow < 0 THEN 1 ELSE 0)

WSub(a, b) == WSubFrom(a, b, 1, 0)

WLess(a, b) ==
    \E k \in 1..WLimbs : a[k] < b[k] /\ \A j \in (k + 1)..WLimbs : a[j] = b[j]

\* the index of the highest limb that is not 0, 0 if there is none
WTop(w) ==
    IF \A k \in 1..WLimbs : w[k] = 0 THEN 0
    ELSE CHOOSE k \in 1..WLimbs :
             w[k] # 0 /\ \A j \in (k + 1)..WLimbs : w[j] = 0

\* the number of bits of w
WBitLenAt(w, top) ==
    IF top = 0 THEN 0 ELSE LimbBits * (top - 1) + BitLen(w[top])

WBitLen(w) == WBitLenAt(w, WTop(w))

\* bit q of w, q = 0 the least significant
WBit(w, q) == (w[(q \div LimbBits) + 1] \div (2 ^ (q % LimbBits))) % 2

\* 2^q
WPow2(q) ==
    [k \in 1..WLimbs |->
        IF k = (q \div LimbBits) + 1 THEN 2 ^ (q % LimbBits) ELSE 0]

\* w with its lowest drop bits cleared
WClear(w, drop) ==
    [k \in 1..WLimbs |->
        IF LimbBits * k <= drop THEN 0
        ELSE IF LimbBits * (k - 1) >= drop THEN w[k]
        ELSE (w[k] \div (2 ^ (drop - LimbBits * (k - 1))))
                 * (2 ^ (drop - LimbBits * (k - 1)))]

\* w rounded to a multiple of 2^drop, to the nearest, ties to even
WRoundBy(w, drop) ==
    IF drop <= 0 THEN w
    ELSE IF WBit(w, drop - 1) = 1
              /\ (WBit(w, drop) = 1 \/ \E q \in 0..(drop - 2) : WBit(w, q) = 1)
    THEN WAdd(WClear(w, drop), WPow2(drop))
    ELSE WClear(w, drop)

\* the double nearest to w
WRound(w) == WRoundBy(w, WBitLen(w) - MantBits)

WZero == [k \in 1..WLimbs |-> 0] \o <<>>

\* signed values
SVal(s, w) == [s |-> s, w |-> w]

SNeg(a) == SVal(-a.s, a.w)

SAdd(a, b) ==
    IF a.s = 0 THEN b
    ELSE IF b.s = 0 THEN a
    ELSE IF a.s = b.s THEN SVal(a.s, WAdd(a.w, b.w))
    ELSE IF a.w = b.w THEN SVal(0, WZero)
    ELSE IF WLess(b.w, a.w) THEN SVal(a.s, WSub(a.w, b.w))
    ELSE SVal(b.s, WSub(b.w, a.w))

SRound(a) == SVal(a.s, WRound(a.w))

\* a + b and a - b in doubles
DAdd(a, b) == SRound(SAdd(a, b))

DSub(a, b) == SRound(SAdd(a, SNeg(b)))

\* a * x in doubles for an integer 0 <= x < 2^19
DMulNat(a, x) == IF x = 0 THEN SVal(0, WZero) ELSE SRound(SVal(a.s, WMul(x, a.w)))

\* tile_size (lines 237-238): 78271.516 / 2^z * 512, both steps exact
TileSizeOf(z) == SVal(1, UNITS_PER_PIXEL_0)

\* MERCATOR_Y_ORIGIN; MERCATOR_X_ORIGIN is its negative (lines 31-32)
OriginOf(z) == SVal(1, WMul(2 ^ z, MERCATOR_ORIGIN))

\* the bottom edge above the top edge
ExtentFrom_up(tile_size, xorigin, yorigin, x, y) ==
    [tlx |-> DAdd(xorigin, DMulNat(tile_size, x)),
     tly |-> DSub(yorigin, DMulNat(tile_size, y)),
     brx |-> DAdd(DAdd(xorigin, DMulNat(tile_size, x)), tile_size),
     bry |-> DAdd(DSub(yorigin, DMulNat(tile_size, y)), tile_size)]

\* lines 240-245 for the tile size and the two origins
ExtentFrom(tile_size, xorigin, yorigin, x, y) ==
    [tlx |-> DAdd(xorigin, DMulNat(tile_size, x)),
     tly |-> DSub(yorigin, DMulNat(tile_size, y)),
     brx |-> DAdd(DAdd(xorigin, DMulNat(tile_size, x)), tile_size),
     bry |-> DSub(DSub(yorigin, DMulNat(tile_size, y)), tile_size)]

\* getExtentforWebMTile(z, x, y) in doubles, in units of 2^-(28 + z) m
WebMTileExtent(z, x, y) ==
    ExtentFrom(TileSizeOf(z), SNeg(OriginOf(z)), OriginOf(z), x, y)

(***************************************************************************)
(* createColorMapFromRAT: the raster attribute table of a band is its      *)
(* columns, each a usage, and its number of rows.                          *)
(***************************************************************************)
MaxCols == 4

MaxRows == 2

GFU == {"Generic", "Red", "Green", "Blue", "Alpha"}

\* the values of column k (from 0) of a table of n rows
ColValues(k, n) == [i \in 1..n |-> (40 * k + 17 * i) % 256]

RATs ==
    {[layerType |-> lt, usage |-> u, rowCount |-> n] :
        lt \in {"thematic", "athematic"},
        u \in UNION {[1..c -> GFU] : c \in 0..MaxCols},
        n \in 0..MaxRows}

\* GetColOfUsage: the first column of the usage, -1 if there is none
GetColOfUsage(rat, usage) ==
    IF \E k \in 1..Len(rat.usage) : rat.usage[k] = usage
    THEN (CHOOSE k \in 1..Len(rat.usage) :
              rat.usage[k] = usage /\ \A j \in 1..(k - 1) : rat.usage[j] # usage) - 1
    ELSE -1

\* ReadAsArray: no array for an index that is no column
RATReadAsArray(rat, idx) ==
    IF idx \in 0..(Len(rat.usage) - 1) THEN Some(ColValues(idx, rat.rowCount))
    ELSE None

\* how the failed read of a column surfaces: by the exceptions of GDAL or,
\* without them, by the assignment of None to a row of the table
ReadFailures == {"RuntimeError", "TypeError"}

\* lines 353-358
RATTable(rat, red, blue, green, alpha, failure) ==
    IF None \in {red, blue, green, alpha}
    THEN [err |-> failure, colormap |-> None]
    ELSE [err |-> "none",
          colormap |-> Some([shape |-> <<4, rat.rowCount>>,
                             tab |-> <<red[1], blue[1], green[1], alpha[1]>>])]

\* line 349
MissingColumn(redIdx, blueIdx, greenIdx, alphaIdx) ==
    redIdx = -1 \/ blueIdx = -1 \/ greenIdx = -1 \/ alphaIdx # -1

\* lines 343-358
ColorMapOfColumns(rat, redIdx, blueIdx, greenIdx, alphaIdx, failure) ==
    IF MissingColumn(redIdx, blueIdx, greenIdx, alphaIdx)
    THEN [err |-> "ValueError", colormap |-> None]
    ELSE RATTable(rat, RATReadAsArray(rat, redIdx), RATReadAsArray(rat, blueIdx),
                  RATReadAsArray(rat, greenIdx), RATReadAsArray(rat, alphaIdx),
                  failure)

createColorMapFromRAT(rat, failure) ==
    IF rat.layerType # "thematic"
    THEN [err |-> "AssertionError", colormap |-> None]
    ELSE ColorMapOfColumns(rat, GetColOfUsage(rat, "Red"), GetColOfUsage(rat, "Blue"),
                           GetColOfUsage(rat, "Green"), GetColOfUsage(rat, "Alpha"),
                           failure)

(***************************************************************************)
(* OverviewManager on datasets whose bands carry overviews of any sizes    *)
(* up to the size of the raster, in any order.                             *)
(***************************************************************************)
MaxOverviews == 3

\* a raster of 12 x 12: halved and quartered, reduced unevenly, not reduced
OvSizes == {<<6, 6>>, <<3, 3>>, <<4, 5>>, <<8, 2>>, <<12, 12>>}

\* the overviews of a second band: those of the first, the one at index m
\* of another size
OtherBand(sizes, m) == [i \in 1..Len(sizes) |-> IF i = m THEN <<1, 1>> ELSE sizes[i]] \o <<>>

OvDatasets ==
    {[RasterXSize |-> 12, RasterYSize |-> 12,
      ovsizes |-> <<sizes, OtherBand(sizes, m)>>] :
        sizes \in UNION {[1..n -> OvSizes] : n \in 0..MaxOverviews},
        m \in 0..1}

BandLists == {<<1>>, <<1, 2>>, <<2, 1>>}

\* the sampling densities asked for, in full resolution pixels per pixel
Requirements == {Rat(1, 2), RInt(1), Rat(3, 2), RInt(2), RInt(3), RInt(4)}

\* a library function is called and returns
CallCreateColorMapFromIntervals(intervals, pattern) ==
    /\ call = None
    /\ call' = [fn |-> "createColorMapFromIntervals", intervals |-> intervals,
                pattern |-> pattern]
    /\ ret' = createColorMapFromIntervals(intervals, pattern)
    /\ UNCHANGED <<ds, pc, req, bands, numOutBands, metadata, data, dataslice,
                   reads, mem, alphaset, nodataMask, err, result, thr, vsimem>>

CallCreateColorMapFromPoints(points) ==
    /\ call = None
    /\ call' = [fn |-> "createColorMapFromPoints", points |-> points]
    /\ ret' = createColorMapFromPoints(points)
    /\ UNCHANGED <<ds, pc, req, bands, numOutBands, metadata, data, dataslice,
                   reads, mem, alphaset, nodataMask, err, result, thr, vsimem>>

CallCreateColorMapFromRAT(rat, failure) ==
    /\ call = None
    /\ call' = [fn |-> "createColorMapFromRAT", rat |-> rat]
    /\ ret' = createColorMapFromRAT(rat, failure)
    /\ UNCHANGED <<ds, pc, req, bands, numOutBands, metadata, data, dataslice,
                   reads, mem, alphaset, nodataMask, err, result, thr, vsimem>>

\* OverviewManager().loadOverviewInfo(d, bandlist): ret is the manager
CallLoadOverviewInfo(d, bandlist) ==
    /\ call = None
    /\ call' = [fn |-> "loadOverviewInfo", ds |-> d, bands |-> bandlist]
    /\ ret' = loadOverviewInfo(d, bandlist)
    /\ UNCHANGED <<ds, pc, req, bands, numOutBands, metadata, data, dataslice,
                   reads, mem, alphaset, nodataMask, err, result, thr, vsimem>>

\* findBestOverview(r) on the manager that was loaded
CallFindBestOverview(r) ==
    /\ call # None
    /\ call.fn = "loadOverviewInfo"
    /\ ret.err = "none"
    /\ call' = [fn |-> "findBestOverview", overviews |-> ret.overviews,
                imgpixperwinpix |-> r]
    /\ ret' = findBestOverview(ret.overviews, r)
    /\ UNCHANGED <<ds, pc, req, bands, numOutBands, metadata, data, dataslice,
                   reads, mem, alphaset, nodataMask, err, result, thr, vsimem>>

CallGetExtentforWebMTile(z, x, y) ==
    /\ call = None
    /\ call' = [fn |-> "getExtentforWebMTile", z |-> z, x |-> x, y |-> y]
    /\ ret' = WebMTileExtent(z, x, y)
    /\ UNCHANGED <<ds, pc, req, bands, numOutBands, metadata, data, dataslice,
                   reads, mem, alphaset, nodataMask, err, result, thr, vsimem>>

\* the caller has the value: the next call may come
LibReturn ==
    /\ call # None
    /\ call' = None
    /\ ret' = None
    /\ UNCHANGED <<ds, pc, req, bands, numOutBands, metadata, data, dataslice,
                   reads, mem, alphaset, nodataMask, err, result, thr, vsimem>>

LibInit ==
    /\ Init
    /\ ds.RasterCount = 1 /\ ds.RasterXSize = 6 /\ ds.nodata[1] = None

LibNext ==
    \/ /\ call = None
       /\ \E intervals \in IntervalArgs, pattern \in EmptyPatterns :
             CallCreateColorMapFromIntervals(intervals, pattern)
    \/ /\ call = None
       /\ \E points \in PointArgs : CallCreateColorMapFromPoints(points)
    \/ /\ call = None
       /\ \E z \in 0..MaxZoom : \E x, y \in 0..(2 ^ z - 1) :
             CallGetExtentforWebMTile(z, x, y)
    \/ /\ call = None
       /\ \E rat \in RATs : \E failure \in ReadFailures :
             CallCreateColorMapFromRAT(rat, failure)
    \/ /\ call = None
       /\ \E d \in OvDatasets, bandlist \in BandLists :
             CallLoadOverviewInfo(d, bandlist)
    \/ \E r \in Requirements : CallFindBestOverview(r)
    \/ LibReturn

SpecLib == LibInit /\ [][LibNext]_vars

(***************************************************************************)
(* createBytesIOFromMEM on the threads of one process.  thr maps a thread   *)
(* to its position in the function and its locals, vsimem a file name of   *)
(* /vsimem to the file: the call that wrote it and its bytes.               *)
(***************************************************************************)
MaxThreads == 2

\* calls of one thread, one after the other
MaxCalls == 2

Threads == 1..MaxThreads

\* the values threading.get_ident() draws from
Idents == 1..MaxThreads

\* the MEM datasets handed in, by their pixels
MemInputs == {<<10, 20>>, <<30, 40>>}

\* CreateCopy with the driver of fmt: the bytes of the image file
Encode(fmt, m) == <<fmt, Len(m)>> \o [k \in 1..Len(m) |-> 255 - m[k]]

\* one name whatever the thread
MemNameOf_shared(ident) == <<"/vsimem/output_", 0, ".png">>

\* line 391
MemNameOf(ident) == <<"/vsimem/output_", ident, ".png">>

Live(t) == t \in DOMAIN thr /\ thr[t].pc # "exited"

\* threading.get_ident() is unique among the threads that are alive
FreeIdents == Idents \ {thr[t].ident : t \in {u \in DOMAIN thr : Live(u)}}

\* the files a call read, replaced or removed are kept in touched
NewThread(ident) ==
    [pc |-> "idle", ident |-> ident, calls |-> 0, mem |-> None,
     memName |-> None, f |-> None, imageData |-> None, output |-> None,
     touched |-> {}]

\* a thread of the process starts
ThrStart(t, ident) ==
    /\ t \notin DOMAIN thr
    /\ ident \in FreeIdents
    /\ thr' = (t :> NewThread(ident)) @@ thr
    /\ UNCHANGED <<call, ret, vsimem, ds, pc, req, bands, numOutBands, metadata,
                   data, dataslice, reads, mem, alphaset, nodataMask, err, result>>

\* the thread ends; its identifier may be given to a later thread
ThrExit(t) ==
    /\ Live(t)
    /\ thr[t].pc = "idle"
    /\ thr' = [thr EXCEPT ![t].pc = "exited"]
    /\ UNCHANGED <<call, ret, vsimem, ds, pc, req, bands, numOutBands, metadata,
                   data, dataslice, reads, mem, alphaset, nodataMask, err, result>>

\* createBytesIOFromMEM(m, "PNG") is entered: mem.FlushCache() (line 383)
ThrCall(t, m) ==
    /\ Live(t)
    /\ thr[t].pc = "idle"
    /\ thr[t].calls < MaxCalls
    /\ thr' = [thr EXCEPT ![t] = [NewThread(thr[t].ident) EXCEPT
                                     !.pc = "flushed", !.mem = Some(m),
                                     !.calls = thr[t].calls + 1]]
    /\ UNCHANGED <<call, ret, vsimem, ds, pc, req, bands, numOutBands, metadata,
                   data, dataslice, reads, mem, alphaset, nodataMask, err, result>>

\* line 391
ThrName(t) ==
    /\ Live(t)
    /\ thr[t].pc = "flushed"
    /\ thr' = [thr EXCEPT ![t].pc = "named",
                          ![t].memName = Some(MemNameOf(thr[t].ident))]
    /\ UNCHANGED <<call, ret, vsimem, ds, pc, req, bands, numOutBands, metadata,
                   data, dataslice, reads, mem, alphaset, nodataMask, err, result>>

\* the calls whose file of this name is there
OwnersOf(name) == IF name \in DOMAIN vsimem THEN {vsimem[name].owner} ELSE {}

\* lines 393-394: CreateCopy writes the file, over a file of that name
ThrCreateCopy(t) ==
    /\ Live(t)
    /\ thr[t].pc = "named"
    /\ thr' = [thr EXCEPT ![t].pc = "copied",
                          ![t].touched = @ \cup OwnersOf(thr[t].memName[1])]
    /\ vsimem' = (thr[t].memName[1] :>
                      [owner |-> <<t, thr[t].calls>>,
                       data |-> Encode("PNG", thr[t].mem[1])])
                    @@ vsimem
    /\ UNCHANGED <<call, ret, ds, pc, req, bands, numOutBands, metadata,
                   data, dataslice, reads, mem, alphaset, nodataMask, err, result>>

\* line 396: VSIFOpenL gives no handle if there is no file of that name
ThrOpen(t) ==
    /\ Live(t)
    /\ thr[t].pc = "copied"
    /\ thr' = [thr EXCEPT
                 ![t].pc = IF thr[t].memName[1] \in DOMAIN vsimem
                           THEN "opened" ELSE "failed",
                 ![t].f = IF thr[t].memName[1] \in DOMAIN vsimem
                          THEN Some(vsimem[thr[t].memName[1]]) ELSE None]
    /\ UNCHANGED <<call, ret, vsimem, ds, pc, req, bands, numOutBands, metadata,
                   data, dataslice, reads, mem, alphaset, nodataMask, err, result>>

\* the file behind the handle: the one of that name now, or the opened one
\* if the name is gone
FileOf(t) ==
    IF thr[t].memName[1] \in DOMAIN vsimem THEN vsimem[thr[t].memName[1]]
    ELSE thr[t].f[1]

\* lines 397-401: the whole file is read and the handle closed
ThrRead(t) ==
    /\ Live(t)
    /\ thr[t].pc = "opened"
    /\ thr' = [thr EXCEPT ![t].pc = "read",
                          ![t].imageData = Some(FileOf(t).data),
                          ![t].f = None,
                          ![t].touched = @ \cup {FileOf(t).owner}]
    /\ UNCHANGED <<call, ret, vsimem, ds, pc, req, bands, numOutBands, metadata,
                   data, dataslice, reads, mem, alphaset, nodataMask, err, result>>

\* line 404: Unlink removes the file of that name, if any
ThrUnlink(t) ==
    /\ Live(t)
    /\ thr[t].pc = "read"
    /\ thr' = [thr EXCEPT ![t].pc = "unlinked",
                          ![t].touched = @ \cup OwnersOf(thr[t].memName[1])]
    /\ vsimem' = [n \in DOMAIN vsimem \ {thr[t].memName[1]} |-> vsimem[n]]
    /\ UNCHANGED <<call, ret, ds, pc, req, bands, numOutBands, metadata,
                   data, dataslice, reads, mem, alphaset, nodataMask, err, result>>

\* lines 406-407
ThrReturn(t) ==
    /\ Live(t)
    /\ thr[t].pc = "unlinked"
    /\ thr' = [thr EXCEPT ![t].pc = "idle", ![t].output = thr[t].imageData]
    /\ UNCHANGED <<call, ret, vsimem, ds, pc, req, bands, numOutBands, metadata,
                   data, dataslice, reads, mem, alphaset, nodataMask, err, result>>

ThrNext ==
    \/ \E t \in Threads : \E ident \in Idents : ThrStart(t, ident)
    \/ \E t \in Threads : ThrExit(t)
    \/ \E t \in Threads : \E m \in MemInputs : ThrCall(t, m)
    \/ \E t \in Threads : ThrName(t)
    \/ \E t \in Threads : ThrCreateCopy(t)
    \/ \E t \in Threads : ThrOpen(t)
    \/ \E t \in Threads : ThrRead(t)
    \/ \E t \in Threads : ThrUnlink(t)
    \/ \E t \in Threads : ThrReturn(t)

SpecThreads == LibInit /\ [][ThrNext]_vars

(***************************************************************************)
(* Calls that raise.  The GDAL bindings raise on errors (line 23), and     *)
(* nothing in createBytesIOFromMEM catches: the statements after the one   *)
(* that raised are not run.                                                *)
(***************************************************************************)
\* what an encoder that fails has written of the file
PartialBytes(fmt) == <<fmt>>

\* lines 393-394: CreateCopy or FlushCache raises.  Whether the driver has
\* created the file by then, and whether it removes it, is the driver's
\* business: written says whether a file is left
ThrCreateCopyRaises(t, written) ==
    /\ Live(t)
    /\ thr[t].pc = "named"
    /\ thr' = [thr EXCEPT ![t].pc = "raised",
                          ![t].touched = IF written
                                         THEN @ \cup OwnersOf(thr[t].memName[1])
                                         ELSE @]
    /\ vsimem' = IF written
                 THEN (thr[t].memName[1] :>
                          [owner |-> <<t, thr[t].calls>>,
                           data |-> PartialBytes("PNG")]) @@ vsimem
                 ELSE vsimem
    /\ UNCHANGED <<call, ret, ds, pc, req, bands, numOutBands, metadata,
                   data, dataslice, reads, mem, alphaset, nodataMask, err, result>>

\* lines 397-401: a step of the read-back raises; line 404 is not reached
ThrReadRaises(t) ==
    /\ Live(t)
    /\ thr[t].pc = "opened"
    /\ thr' = [thr EXCEPT ![t].pc = "raised", ![t].f = None]
    /\ UNCHANGED <<call, ret, vsimem, ds, pc, req, bands, numOutBands, metadata,
                   data, dataslice, reads, mem, alphaset, nodataMask, err, result>>

\* the exception leaves the function: the call has ended without a result
ThrRaise(t) ==
    /\ Live(t)
    /\ thr[t].pc \in {"raised", "failed"}
    /\ thr' = [thr EXCEPT ![t].pc = "idle", ![t].output = None]
    /\ UNCHANGED <<call, ret, vsimem, ds, pc, req, bands, numOutBands, metadata,
                   data, dataslice, reads, mem, alphaset, nodataMask, err, result>>

ScratchNext ==
    \/ ThrNext
    \/ \E t \in Threads : \E written \in BOOLEAN : ThrCreateCopyRaises(t, written)
    \/ \E t \in Threads : ThrReadRaises(t)
    \/ \E t \in Threads : ThrRaise(t)

SpecScratch == LibInit /\ [][ScratchNext]_vars

(***************************************************************************)
(* getRawImageChunk on rasters of several shapes and tiles in any position *)
(* relative to them.  The rasters have their top left corner at (0, 0);    *)
(* tiles are squares whose corners lie on a grid of 1/8 projected units,   *)
(* half a pixel of the rasters with pixels of 1/4.                         *)
(***************************************************************************)
\* tiles start up to MaxReach grid steps beyond the positions that touch
\* the raster
MaxReach == 2

NorthUp(pw, ph) == <<RInt(0), pw, RInt(0), RInt(0), RInt(0), RSub(RInt(0), ph)>>

\* a raster of xs x ys pixels of pw x ph with the overviews ovs per band
RasterOf(xs, ys, pw, ph, ovs) ==
    [RasterXSize |-> xs, RasterYSize |-> ys, RasterCount |-> Len(ovs),
     transform |-> NorthUp(pw, ph), nodata |-> [b \in 1..Len(ovs) |-> None],
     ovsizes |-> ovs]

\* square pixels with one halved overview, of even and of odd width; pixels
\* half as high as wide; two bands whose first overviews differ in size;
\* a second band with fewer overviews than the first
ChunkDatasets ==
    {RasterOf(6, 5, Rat(1, 4), Rat(1, 4), <<<<<<3, 3>>>>>>),
     RasterOf(5, 6, Rat(1, 4), Rat(1, 4), <<<<<<3, 3>>>>>>),
     RasterOf(6, 5, Rat(1, 4), Rat(1, 8), <<<<>>>>),
     RasterOf(4, 4, Rat(1, 4), Rat(1, 4), <<<<<<2, 2>>, <<1, 1>>>>, <<<<2, 1>>, <<1, 1>>>>>>),
     RasterOf(4, 4, Rat(1, 4), Rat(1, 4), <<<<<<2, 2>>>>, <<>>>>)}

\* the sides of the tiles asked for of a raster, in projected units: with
\* tiles of 4 pixels, that many raster pixels of width 1/4 per tile pixel
TileSpansOf(d) ==
    IF d.RasterCount > 1 THEN {RInt(4)}
    ELSE IF d.transform[2] # RSub(RInt(0), d.transform[6]) THEN {Rat(1, 2), RInt(1)}
    ELSE {Rat(3, 8), Rat(1, 2), RInt(1), RInt(2)}

\* the grid positions of the left (top) edge of a tile of side span from
\* where it lies off the raster on one side to where it does on the other
GridReach(span, npix, pixsize) ==
    (-(RFloor(RMul(RInt(8), span)) + MaxReach))..(RFloor(RMul(RInt(8 * npix), pixsize)) + MaxReach)

TileAt(kx, ky, span) ==
    [tlx |-> Rat(kx, 8), tly |-> Rat(-ky, 8),
     brx |-> RAdd(Rat(kx, 8), span), bry |-> RSub(Rat(-ky, 8), span)]

AllBands(d) == [b \in 1..d.RasterCount |-> b]

\* Metadata(ds): the overviews are loaded for all the bands (line 572)
CallLoadMetadata(d) ==
    /\ call = None
    /\ call' = [fn |-> "loadOverviewInfo", ds |-> d, bands |-> AllBands(d)]
    /\ ret' = loadOverviewInfo(d, AllBands(d))
    /\ UNCHANGED <<ds, pc, req, bands, numOutBands, metadata, data, dataslice,
                   reads, mem, alphaset, nodataMask, err, result, thr, vsimem>>

\* what getRawImageChunk returns, with the values of its locals (plan)
ChunkWithPlan(d, md, plan, bandlist, resampling, garbage) ==
    [plan |-> plan, out |-> ChunkOfPlan(d, md, plan, bandlist, resampling, garbage)]

\* getRawImageChunk(ds, metadata, size, size, tile, bands, resampling) on
\* the metadata that was loaded
CallChunk(d, md, size, tile, bandlist, resampling, garbage) ==
    /\ call' = [fn |-> "getRawImageChunk", ds |-> d, metadata |-> md,
                xsize |-> size, ysize |-> size, tile |-> tile,
                bands |-> bandlist, resampling |-> resampling]
    /\ ret' = ChunkWithPlan(d, md, ChunkPlan(md, size, size, tile), bandlist,
                            resampling, garbage)
    /\ UNCHANGED <<ds, pc, req, bands, numOutBands, metadata, data, dataslice,
                   reads, mem, alphaset, nodataMask, err, result, thr, vsimem>>

ChunkNext ==
    \/ /\ call = None
       /\ \E d \in ChunkDatasets : CallLoadMetadata(d)
    \/ /\ call # None
       /\ call.fn = "loadOverviewInfo"
       /\ ret.err = "none"
       /\ \E span \in TileSpansOf(call.ds), resampling \in RESAMPLE_METHODS :
            \E kx \in GridReach(span, call.ds.RasterXSize, call.ds.transform[2]) :
              \E ky \in GridReach(span, call.ds.RasterYSize, RSub(RInt(0), call.ds.transform[6])) :
                \E size \in TileSizes, garbage \in GarbageValues :
                  CallChunk(call.ds, Metadata(call.ds), size, TileAt(kx, ky, span),
                            call.bands, resampling, garbage)
    \/ LibReturn

SpecChunk == LibInit /\ [][ChunkNext]_vars

(***************************************************************************)
(* The resampling functions on their own.  The source arrays hold a        *)
(* different value at every place, so the place a sample was taken from    *)
(* can be told from its value.                                             *)
(***************************************************************************)
MaxOut == 3

MaxMargin == 1

SourceShapes == {<<1, 1>>, <<2, 3>>, <<3, 2>>, <<3, 3>>}

\* the value of the source at row r and column c
SourceValue(r, c) == 10 * r + c + 1

SourceArray(shape) ==
    Arr(shape[1], shape[2], [r \in Nat |-> [c \in Nat |-> SourceValue(r, c)]])

OutSizes == (1..MaxOut) \X (1..MaxOut)

\* the shape of the source and the size asked for.  7 rows replicated to
\* 29: 7 * (29 / 7.0) is above 29 in floating point and the count of
\* rows of line 50 is 30
ResampleInputs == (SourceShapes \X OutSizes) \cup {<<<<7, 1>>, <<29, 1>>>>}

Margins == 0..MaxMargin

ResampleCall(name, arr, outsize, l, t, r, b) ==
    [fn |-> name, arr |-> arr, outsize |-> outsize,
     dspLeftExtra |-> l, dspTopExtra |-> t,
     dspRightExtra |-> r, dspBottomExtra |-> b]

\* replicateArray(arr, outsize, l, t, r, b, None)
CallReplicateArray(arr, outsize, l, t, r, b) ==
    /\ call' = ResampleCall("replicateArray", arr, outsize, l, t, r, b)
    /\ ret' = replicateArray(arr, outsize, l, t, r, b, None)
    /\ UNCHANGED <<ds, pc, req, bands, numOutBands, metadata, data, dataslice,
                   reads, mem, alphaset, nodataMask, err, result, thr, vsimem>>

\* bilinearResample(arr, outsize, l, t, r, b, None)
CallBilinearResample(arr, outsize, l, t, r, b) ==
    /\ call' = ResampleCall("bilinearResample", arr, outsize, l, t, r, b)
    /\ ret' = bilinearResample(arr, outsize, l, t, r, b, None)
    /\ UNCHANGED <<ds, pc, req, bands, numOutBands, metadata, data, dataslice,
                   reads, mem, alphaset, nodataMask, err, result, thr, vsimem>>

ResampleNext ==
    \/ /\ call = None
       /\ \E in \in ResampleInputs :
            \E l \in Margins, t \in Margins, r \in Margins, b \in Margins :
              CallReplicateArray(SourceArray(in[1]), in[2], l, t, r, b)
    \/ /\ call = None
       /\ \E in \in ResampleInputs :
            \E l \in Margins, t \in Margins, r \in Margins, b \in Margins :
              CallBilinearResample(SourceArray(in[1]), in[2], l, t, r, b)
    \/ LibReturn

SpecResample == LibInit /\ [][ResampleNext]_vars

(***************************************************************************)
(* Vocabulary of the properties.                                           *)
(***************************************************************************)
\* the call has ended: the tile is with the encoder or an exception is out
Ended == pc \in {"done", "error"}

\* the band list the call reads
BandList ==
    IF req.bands = None THEN [i \in 1..ds.RasterCount |-> i] ELSE req.bands[1]

\* the request is one the interface allows
ValidRequest ==
    /\ req # None
    /\ Len(BandList) \in {1, 3, 4}
    /\ req.colormap # None => Len(BandList) = 1 /\ req.rescaling = None
    /\ req.rescaling # None => Len(req.rescaling[1]) \in {1, Len(BandList)}
    /\ req.resampling \in RESAMPLE_METHODS

\* the tile of the request lies off the raster
OffRaster ==
    ChunkPlan(Metadata(ds), req.tileSize, req.tileSize, req.extent).outside

\* the buffer has four channels of tileSize x tileSize samples
FourChannels(buf) ==
    /\ buf.nbands = 4
    /\ DOMAIN buf.pix = 1..4
    /\ \A n \in 1..4 :
          /\ DOMAIN buf.pix[n] = 0..(req.tileSize - 1)
          /\ \A r \in 0..(req.tileSize - 1) :
                DOMAIN buf.pix[n][r] = 0..(req.tileSize - 1)

\* C1: a valid request whose tile does not overlap the raster ends without
\* an error and hands over a 4 channel tile of zeros
C1_ZeroTileOffRaster ==
    (Ended /\ ValidRequest /\ OffRaster) =>
        /\ pc = "done"
        /\ err = "none"
        /\ result # None
        /\ FourChannels(result[1])
        /\ \A n \in 1..4, r, c \in 0..(req.tileSize - 1) :
              result[1].pix[n][r][c] = 0

\* C2: a valid request whose tile overlaps the raster hands a 4 channel
\* tileSize x tileSize buffer to the encoder, a single band without a
\* colormap included
C2_FourChannelsOnRaster ==
    (Ended /\ ValidRequest /\ ~OffRaster) =>
        /\ pc = "done"
        /\ result # None
        /\ FourChannels(result[1])

ValidationErrors ==
    {"InvalidBandCount", "RescaleLengthMismatch", "UnknownResample"}

\* C3: no validation error is raised after a pixel read has been issued
C3_ValidationBeforeReads ==
    (pc = "error" /\ err \in ValidationErrors) => reads = <<>>

\* C4: a band list of a length other than 1, 3 or 4, and a colormap with a
\* band list of a length other than 1, end in the invalid band count error
C4_InvalidBandCount ==
    (Ended /\ (\/ Len(BandList) \notin {1, 3, 4}
               \/ req.colormap # None /\ Len(BandList) # 1)) =>
        (pc = "error" /\ err = "InvalidBandCount")

\* the positions of the data: rows and columns of the arrays read
DataRows == 0..(data[1].bands[1].ysize - 1)
DataCols == 0..(data[1].bands[1].xsize - 1)

\* the tile position the sample (r, c) of the data is shown at
TileRow(r) == dataslice[1].top + r
TileCol(c) == dataslice[1].left + c

\* whether the tile position (r, c) is inside the destination sub-rectangle
InSlice(r, c) ==
    /\ dataslice[1].top <= r /\ r < dataslice[1].bottom
    /\ dataslice[1].left <= c /\ c < dataslice[1].right

\* C5: a single (min, max) pair is applied to every band; a list of another
\* length than the band list ends in an error, on and off the raster
C5_RescalePairCount ==
    (Ended /\ req.rescaling # None) =>
        LET rs == req.rescaling[1]
            maxOutVal == IInfoMax(req.outTileType)
        IN  /\ (Len(rs) # 1 /\ Len(rs) # Len(BandList)) => pc = "error"
            /\ (Len(rs) = 1 /\ pc = "done" /\ data # None) =>
                   \A n \in 1..Len(BandList), r \in DataRows, c \in DataCols :
                       result[1].pix[n][TileRow(r)][TileCol(c)] =
                           RescaleValue(data[1].bands[n].pix[r][c],
                                        rs[1][1], rs[1][2], maxOutVal)

\* the resampling methods the interface names
KnownResampling == {"near", "bilinear"}

\* C6: a request with an unknown resampling name ends in an error: nothing
\* is read and no tile is made, whatever the resolution and the place of
\* the tile
C6_UnknownResamplingFails ==
    (req # None /\ req.resampling \notin KnownResampling) =>
        /\ pc \in {"chunk", "error"}
        /\ reads = <<>>
        /\ data = None
        /\ result = None

\* an unknown name was refused for a tile off the raster whose display
\* resolution is coarser than the source
C6_Witness ==
    /\ pc = "error"
    /\ err = "UnknownResample"
    /\ req.resampling \notin KnownResampling
    /\ OffRaster
    /\ RLe(RInt(1), ChunkPlan(metadata[1], req.tileSize, req.tileSize,
                              req.extent).imgPixPerWinPix)

\* clamp(max(v - min, 0) * M / (max - min), 0, M) truncated to an integer
ClampedRescale(v, minVal, maxVal, maxOutVal) ==
    Min2(Max2((Max2(v - minVal, 0) * maxOutVal) \div (maxVal - minVal), 0),
         maxOutVal)

\* C7: a rescaled sample is clamp(max(v - min, 0) * M / (max - min), 0, M)
\* truncated to an integer, for every pair with max > min
C7_RescaleFormula ==
    (pc = "done" /\ ValidRequest /\ req.rescaling # None /\ data # None) =>
        LET rs == req.rescaling[1]
            maxOutVal == IInfoMax(req.outTileType)
        IN  \A n \in 1..Len(bands[1]), r \in DataRows, c \in DataCols :
                LET pair == rs[IF Len(rs) = 1 THEN 1 ELSE n]
                IN  pair[2] > pair[1] =>
                        result[1].pix[n][TileRow(r)][TileCol(c)] =
                            ClampedRescale(data[1].bands[n].pix[r][c],
                                           pair[1], pair[2], maxOutVal)

\* whether a band with a nodata value holds it at the sample (r, c)
IsNodataAt(r, c) ==
    \E n \in 1..Len(bands[1]) :
        /\ metadata[1].allIgnore[bands[1][n]] # None
        /\ data[1].bands[n].pix[r][c] = metadata[1].allIgnore[bands[1][n]][1]

\* C8: with pass-through or rescaling of fewer than 4 bands the alpha of a
\* pixel inside the destination sub-rectangle is 0 where a band holds its
\* nodata value at the sample shown there, and the maximum otherwise
C8_AlphaFromNodata ==
    (pc = "done" /\ ValidRequest /\ data # None /\ req.colormap = None
        /\ Len(BandList) < 4) =>
        /\ result[1].nbands = 4
        /\ \A r \in DataRows, c \in DataCols :
              result[1].pix[4][TileRow(r)][TileCol(c)] =
                  IF IsNodataAt(r, c) THEN 0 ELSE IInfoMax(req.outTileType)

\* C9: every pixel outside the destination sub-rectangle is 0 in every
\* channel of the tile of an overlapping request
C9_ZeroOutsideSlice ==
    (pc = "done" /\ ValidRequest /\ data # None) =>
        \A n \in 1..result[1].nbands, r, c \in 0..(req.tileSize - 1) :
            ~InSlice(r, c) => result[1].pix[n][r][c] = 0

\* a colormap is applied to a single band
ColormapRequest ==
    /\ req # None
    /\ req.colormap # None
    /\ req.rescaling = None
    /\ Len(BandList) = 1

\* C10: with a colormap of K columns and a single band, each channel n of a
\* pixel inside the destination sub-rectangle is colormap[n][min(max(v, 0),
\* K - 1)] for the sample v shown there, the alpha channel included
C10_ColormapLookup ==
    (ColormapRequest /\ pc \in {"alpha", "encode", "done"} /\ data # None) =>
        LET cm == req.colormap[1]
            K == cm.shape[2]
        IN  /\ mem.nbands = 4
            /\ \A n \in 1..4, r \in DataRows, c \in DataCols :
                  mem.pix[n][TileRow(r)][TileCol(c)] =
                      cm.tab[n - 1][Min2(Max2(data[1].bands[1].pix[r][c], 0),
                                         K - 1)]

\* a tile was made from samples below 0, above K - 1 and equal to the
\* nodata value of the band
C10_Witness ==
    /\ pc = "done"
    /\ ColormapRequest
    /\ data # None
    /\ metadata[1].allIgnore[bands[1][1]] # None
    /\ \E r \in DataRows, c \in DataCols : data[1].bands[1].pix[r][c] < 0
    /\ \E r \in DataRows, c \in DataCols :
          data[1].bands[1].pix[r][c] > req.colormap[1].shape[2] - 1
    /\ \E r \in DataRows, c \in DataCols :
          /\ IsNodataAt(r, c)
          /\ result[1].pix[4][TileRow(r)][TileCol(c)] # 0

\* the request carries both rescaling pairs and a colormap
BothTransforms == req # None /\ req.rescaling # None /\ req.colormap # None

\* C14: a request with both rescaling pairs and a colormap is rejected with
\* a validation error: no transform is applied and no tile is returned
C14_BothTransformsRejected ==
    (BothTransforms /\ Ended) =>
        /\ pc = "error"
        /\ err \in ValidationErrors
        /\ reads = <<>>
        /\ mem = None
        /\ result = None

\* the call that returned last is a call of fn
Called(fn) == call # None /\ call.fn = fn

\* intervals sorted by value that do not overlap
SortedIntervals(intervals) ==
    /\ intervals # <<>>
    /\ \A j \in 1..Len(intervals) : intervals[j][1][1] <= intervals[j][1][2]
    /\ \A j \in 1..(Len(intervals) - 1) :
          intervals[j][1][2] <= intervals[j + 1][1][1]

\* what a single band pixel of value v shows under the colormap cm
Shown(cm, v) ==
    [n \in 1..4 |-> ColormapArr(Arr(1, 1, [r \in Nat |-> [c \in Nat |-> v]]),
                                cm, n - 1).pix[0][0]]

\* C11: for intervals sorted by value that do not overlap,
\* createColorMapFromIntervals returns a table of 4 rows and as many columns
\* as the max of the last interval; every column i with min <= i < max of
\* an interval holds the colour of the interval, and a column max that no
\* interval reaches is left as it was; with the intervals of the scenario
\* a pixel of value 50 shows red
C11_IntervalTable ==
    (Called("createColorMapFromIntervals")
        /\ SortedIntervals(call.intervals)) =>
        /\ ret.err = "none"
        /\ ret.colormap[1].shape =
               <<4, call.intervals[Len(call.intervals)][1][2]>>
        /\ DOMAIN ret.colormap[1].tab = 0..3
        /\ \A n \in 0..3 :
              DOMAIN ret.colormap[1].tab[n] =
                  0..(call.intervals[Len(call.intervals)][1][2] - 1)
        /\ \A j \in 1..Len(call.intervals), n \in 0..3 :
              /\ \A i \in call.intervals[j][1][1]..(call.intervals[j][1][2] - 1) :
                    ret.colormap[1].tab[n][i] = call.intervals[j][2][n + 1]
              /\ (/\ call.intervals[j][1][2] \in DOMAIN ret.colormap[1].tab[n]
                  /\ \A k \in 1..Len(call.intervals) :
                        call.intervals[k][1][1] = call.intervals[k][1][2]
                            \/ call.intervals[k][1][1] # call.intervals[j][1][2])
                 => ret.colormap[1].tab[n][call.intervals[j][1][2]]
                        = EmptyCell(call.pattern, n, call.intervals[j][1][2])
        /\ call.intervals = ScenarioIntervals =>
              Shown(ret.colormap[1], 50) = Red

\* a table was built from two intervals with a gap between them: column 0 is
\* white, column 1 is left as numpy.empty made it, column 2 is red
C11_Witness ==
    /\ Called("createColorMapFromIntervals")
    /\ SortedIntervals(call.intervals)
    /\ Len(call.intervals) = 2
    /\ call.intervals[1][1] = <<0, 1>>
    /\ call.intervals[2][1] = <<2, 3>>
    /\ call.intervals[1][2] = White
    /\ call.intervals[2][2] = Red
    /\ call.pattern # <<0>>
    /\ ret.colormap[1].tab[0][0] = 255
    /\ ret.colormap[1].tab[0][1] = 13
    /\ ret.colormap[1].tab[0][2] = 215

\* the linear interpolation between y0 at x0 and y1 at x1, at x, truncated
LinearTruncated(x0, y0, x1, y1, x) ==
    (y0 * (x1 - x0) + (x - x0) * (y1 - y0)) \div (x1 - x0)

\* C12: for control points of strictly increasing value,
\* createColorMapFromPoints returns a table of 4 rows and lastValue + 1
\* columns; the column of a control value holds the colour of the point,
\* a column between two consecutive control points holds in each channel
\* the truncated linear interpolation between the two colours, and a column
\* below the first control value holds the first colour
C12_PointTable ==
    Called("createColorMapFromPoints") =>
        /\ ret.err = "none"
        /\ ret.colormap[1].shape = <<4, call.points[Len(call.points)][1] + 1>>
        /\ \A n \in 0..3 :
              /\ DOMAIN ret.colormap[1].tab[n] =
                     0..call.points[Len(call.points)][1]
              /\ \A j \in 1..Len(call.points) :
                    ret.colormap[1].tab[n][call.points[j][1]] =
                        call.points[j][2][n + 1]
              /\ \A j \in 1..(Len(call.points) - 1) :
                    \A i \in (call.points[j][1] + 1)..(call.points[j + 1][1] - 1) :
                        ret.colormap[1].tab[n][i] =
                            LinearTruncated(call.points[j][1],
                                call.points[j][2][n + 1],
                                call.points[j + 1][1],
                                call.points[j + 1][2][n + 1], i)
              /\ \A i \in 0..(call.points[1][1] - 1) :
                    ret.colormap[1].tab[n][i] = call.points[1][2][n + 1]

\* a - b, exactly
ExactDiff(a, b) == SAdd(a, SNeg(b))

\* a > b
Above(a, b) == ExactDiff(a, b).s = 1

\* |a - b| <= 2^-27 m, for values of zoom z
Within(a, b, z) == ~WLess(WPow2(z + 1), ExactDiff(a, b).w)

\* X_ORIGIN + d * x and Y_ORIGIN - d * y, exactly
ExactLeft(d, z, x) == SAdd(SNeg(OriginOf(z)), IF x = 0 THEN SVal(0, WZero) ELSE SVal(d.s, WMul(x, d.w)))

ExactTop(d, z, y) == SAdd(OriginOf(z), IF y = 0 THEN SVal(0, WZero) ELSE SVal(-d.s, WMul(y, d.w)))

\* C13 as stated: for every zoom and tile indices 0 <= x, y < 2^z,
\* getExtentforWebMTile returns brx > tlx, tly > bry, brx - tlx = tly - bry
\* = 78271.516 / 2^z * 512, tlx = X_ORIGIN + (brx - tlx) * x and
\* tly = Y_ORIGIN - (tly - bry) * y.
C13_ExactExtent ==
    Called("getExtentforWebMTile") =>
        /\ Above(ret.brx, ret.tlx)
        /\ Above(ret.tly, ret.bry)
        /\ ExactDiff(ret.brx, ret.tlx) = TileSizeOf(call.z)
        /\ ExactDiff(ret.tly, ret.bry) = TileSizeOf(call.z)
        /\ ret.tlx = ExactLeft(ExactDiff(ret.brx, ret.tlx), call.z, call.x)
        /\ ret.tly = ExactTop(ExactDiff(ret.tly, ret.bry), call.z, call.y)

\* C13, amended: for every zoom 0 <= z <= 30 and tile indices
\* 0 <= x, y < 2^z, getExtentforWebMTile returns brx > tlx, tly > bry,
\* brx - tlx and tly - bry within 2^-27 m of tile_size
\* = 78271.516 / 2^z * 512, tlx within 2^-27 m of X_ORIGIN + tile_size * x
\* and tly within 2^-27 m of Y_ORIGIN - tile_size * y.
C13_RoundedExtent ==
    Called("getExtentforWebMTile") =>
        /\ Above(ret.brx, ret.tlx)
        /\ Above(ret.tly, ret.bry)
        /\ Within(ExactDiff(ret.brx, ret.tlx), TileSizeOf(call.z), call.z)
        /\ Within(ExactDiff(ret.tly, ret.bry), TileSizeOf(call.z), call.z)
        /\ Within(ret.tlx, ExactLeft(TileSizeOf(call.z), call.z, call.x), call.z)
        /\ Within(ret.tly, ExactTop(TileSizeOf(call.z), call.z, call.y), call.z)

\* a tile whose width is not the tile size: a corner was rounded
C13_Witness ==
    /\ Called("getExtentforWebMTile")
    /\ call.z = MaxZoom
    /\ call.x > 0
    /\ ExactDiff(ret.brx, ret.tlx) # TileSizeOf(call.z)
    /\ Above(ret.brx, ret.tlx)
    /\ Within(ExactDiff(ret.brx, ret.tlx), TileSizeOf(call.z), call.z)

\* the calls that have their scratch file name and have not returned
InFlight(t) == Live(t) /\ thr[t].pc \in {"named", "copied", "opened", "read", "unlinked"}

AllColourColumns(rat) == {"Red", "Green", "Blue", "Alpha"} \subseteq {rat.usage[k] : k \in 1..Len(rat.usage)}

\* C16: createColorMapFromRAT raises the 'unable to find all color columns'
\* error if and only if at least one of the red, green, blue or alpha usage
\* columns is missing from the attribute table; when all four columns are
\* present it returns a 4 x rowCount table and raises nothing.
C16_MissingColumnError ==
    (Called("createColorMapFromRAT") /\ call.rat.layerType = "thematic") =>
        /\ ret.err = "ValueError" <=> ~AllColourColumns(call.rat)
        /\ AllColourColumns(call.rat) =>
              /\ ret.err = "none"
              /\ ret.colormap[1].shape = <<4, call.rat.rowCount>>

\* the levels of the list that are at least as fine as required
Satisfying(overviews, r) == {k \in 1..Len(overviews) : RLe(overviews[k].fullrespixperpix, r)}

\* C17: for every set of overview levels that loadOverviewInfo can produce
\* and every pair of requirements r1 <= r2, the fullrespixperpix of
\* findBestOverview(r1) is less than or equal to that of
\* findBestOverview(r2).
C17_Monotonic ==
    Called("findBestOverview") =>
        \A r2 \in Requirements :
            RLe(call.imgpixperwinpix, r2) =>
                RLe(ret.fullrespixperpix,
                    findBestOverview(call.overviews, r2).fullrespixperpix)

\* C18 as stated: if some level has fullrespixperpix <= r then
\* findBestOverview(r) returns a level with fullrespixperpix <= r; if no
\* level has, it returns the coarsest available level.
C18_SatisfiedOrCoarsest ==
    Called("findBestOverview") =>
        IF Satisfying(call.overviews, call.imgpixperwinpix) # {}
        THEN RLe(ret.fullrespixperpix, call.imgpixperwinpix)
        ELSE \A k \in 1..Len(call.overviews) :
                 RLe(call.overviews[k].fullrespixperpix, ret.fullrespixperpix)

\* C18, amended: for every level list loaded from a dataset whose overviews
\* are no larger than the raster and every requirement r, if some level has
\* fullrespixperpix <= r then findBestOverview(r) returns a level of the
\* list with fullrespixperpix <= r; if no level has (r < 1), it returns the
\* full resolution level (index 0), the finest available.
C18_SatisfiedOrFullRes ==
    Called("findBestOverview") =>
        /\ \E k \in 1..Len(call.overviews) : ret = call.overviews[k]
        /\ IF Satisfying(call.overviews, call.imgpixperwinpix) # {}
           THEN RLe(ret.fullrespixperpix, call.imgpixperwinpix)
           ELSE /\ RLt(call.imgpixperwinpix, RInt(1))
                /\ ret.index = 0
                /\ \A k \in 1..Len(call.overviews) :
                      RLe(ret.fullrespixperpix, call.overviews[k].fullrespixperpix)

\* zoomed in past the full resolution on a dataset of three overviews, two
\* of them coarser than the raster: the full resolution level is returned
C18_Witness ==
    /\ Called("findBestOverview")
    /\ call.imgpixperwinpix = Rat(1, 2)
    /\ Len(call.overviews) = 4
    /\ call.overviews[2].fullrespixperpix = RInt(1)
    /\ call.overviews[3].fullrespixperpix = RInt(2)
    /\ call.overviews[4].fullrespixperpix = RInt(4)
    /\ ret.index = 0

\* C19: for every loaded level list and every requirement r >= 1,
\* findBestOverview(r) returns the level with the greatest fullrespixperpix
\* among all loaded levels whose fullrespixperpix <= r; when the dataset
\* has no overviews it returns the full resolution level (index 0).
C19_CoarsestSatisfying ==
    (Called("findBestOverview") /\ RLe(RInt(1), call.imgpixperwinpix)) =>
        /\ RLe(ret.fullrespixperpix, call.imgpixperwinpix)
        /\ \A k \in Satisfying(call.overviews, call.imgpixperwinpix) :
              RLe(call.overviews[k].fullrespixperpix, ret.fullrespixperpix)
        /\ Len(call.overviews) = 1 => ret.index = 0

\* the levels of the list by decreasing area
AreaOrdered(overviews) ==
    \A k \in 1..(Len(overviews) - 1) :
        overviews[k].xsize * overviews[k].ysize
            >= overviews[k + 1].xsize * overviews[k + 1].ysize

\* C20: after loadOverviewInfo on any dataset, the level list is not empty,
\* is ordered by non-increasing pixel area, contains exactly one level with
\* index 0 and fullrespixperpix 1.0, and that level is the first of the
\* list.
C20_LevelList ==
    (Called("loadOverviewInfo") /\ ret.err = "none") =>
        /\ Len(ret.overviews) >= 1
        /\ AreaOrdered(ret.overviews)
        /\ Cardinality({k \in 1..Len(ret.overviews) : ret.overviews[k].index = 0}) = 1
        /\ ret.overviews[1].index = 0
        /\ ret.overviews[1].fullrespixperpix = RInt(1)

\* overviews given smallest first, one of them as large as the raster and
\* one dropped for the size it has on the other band
C20_Witness ==
    /\ Called("loadOverviewInfo")
    /\ call.bands = <<1, 2>>
    /\ call.ds.ovsizes[1] = <<<<3, 3>>, <<12, 12>>, <<6, 6>>>>
    /\ call.ds.ovsizes[2] = <<<<1, 1>>, <<12, 12>>, <<6, 6>>>>
    /\ Len(ret.overviews) = 3
    /\ ret.overviews[1].index = 0
    /\ ret.overviews[2].index = 2
    /\ ret.overviews[3].index = 3

(***************************************************************************)
(* Chunks of varied rasters                                                *)
(***************************************************************************)
\* the sizes of the overviews of band b of the dataset of the call
StoredOverviews(b) == call.ds.ovsizes[b]

\* every listed band has an overview at store index i - 1 of the size of the
\* first band's overview there
SameSizeOnAllBands(i) ==
    \A j \in 1..Len(call.bands) :
        /\ Len(StoredOverviews(call.bands[j])) >= i
        /\ StoredOverviews(call.bands[j])[i] = StoredOverviews(call.bands[1])[i]

\* the levels of the list that carry index i
LevelsOfIndex(overviews, i) ==
    {k \in 1..Len(overviews) : overviews[k].index = i}

\* the last call read pixels
ChunkRead == Called("getRawImageChunk") /\ ret.out.reads # <<>>

\* C21: loading never fails, also when another band exposes fewer overviews
\* than the first; the overview at store index i - 1 is kept, as the one
\* level of index i and of that overview's size, if and only if every listed
\* band has an overview of the same size there; and a chunk reads the
\* selected level of every requested band at the store index of the level
C21_SameSizedOverviewsKept ==
    /\ Called("loadOverviewInfo") =>
          /\ ret.err = "none"
          /\ \A i \in 1..Len(StoredOverviews(call.bands[1])) :
                /\ SameSizeOnAllBands(i) <=>
                      LevelsOfIndex(ret.overviews, i) # {}
                /\ \A k \in LevelsOfIndex(ret.overviews, i) :
                      /\ Cardinality(LevelsOfIndex(ret.overviews, i)) = 1
                      /\ ret.overviews[k].xsize = StoredOverviews(call.bands[1])[i][1]
                      /\ ret.overviews[k].ysize = StoredOverviews(call.bands[1])[i][2]
    /\ (Called("getRawImageChunk") /\ ~ret.plan.outside) =>
          /\ ret.out.err \notin {"AttributeError"}
          /\ ret.out.err = "none" =>
                /\ Len(ret.out.reads) = Len(call.bands)
                /\ \A j \in 1..Len(call.bands) :
                      /\ ret.out.reads[j].band = call.bands[j]
                      /\ ret.out.reads[j].index = ret.plan.selectedovi.index
                      /\ ret.plan.selectedovi.index > 0 =>
                            /\ BandXSize(call.ds, call.bands[j], ret.out.reads[j].index)
                                   = ret.plan.selectedovi.xsize
                            /\ BandYSize(call.ds, call.bands[j], ret.out.reads[j].index)
                                   = ret.plan.selectedovi.ysize

\* the last call returned data
ChunkData ==
    /\ Called("getRawImageChunk")
    /\ ret.out.err = "none"
    /\ ret.out.data # None

\* C22: when getRawImageChunk returns data, the slice lies within the tile,
\* 0 <= top <= bottom <= ysize and 0 <= left <= right <= xsize, and the data
\* of every band has the shape (bottom - top, right - left) of the slice
C22_SliceWithinTile ==
    ChunkData =>
        LET sl == ret.out.dataslice[1]
        IN  /\ 0 <= sl.top /\ sl.top <= sl.bottom /\ sl.bottom <= call.ysize
            /\ 0 <= sl.left /\ sl.left <= sl.right /\ sl.right <= call.xsize
            /\ \A j \in 1..Len(ret.out.data[1].bands) :
                  /\ ret.out.data[1].bands[j].ysize = sl.bottom - sl.top
                  /\ ret.out.data[1].bands[j].xsize = sl.right - sl.left

\* The tile of the call in pixels of the raster, from the origin and the
\* pixel size of a north up raster: the column of x and the row of y
ColumnOf(x) == RDiv(RSub(x, call.ds.transform[1]), call.ds.transform[2])

RowOf(y) == RDiv(RSub(call.ds.transform[4], y), RSub(RInt(0), call.ds.transform[6]))

TileAbove == RLt(RowOf(call.tile.bry), RInt(0))

TileBelow == RLt(RInt(call.ds.RasterYSize), RowOf(call.tile.tly))

TileLeftOf == RLt(ColumnOf(call.tile.brx), RInt(0))

TileRightOf == RLt(RInt(call.ds.RasterXSize), ColumnOf(call.tile.tlx))

\* the tile shares columns, or rows, with the raster
TileInColumns ==
    /\ RLt(RInt(0), ColumnOf(call.tile.brx))
    /\ RLt(ColumnOf(call.tile.tlx), RInt(call.ds.RasterXSize))

TileInRows ==
    /\ RLt(RInt(0), RowOf(call.tile.bry))
    /\ RLt(RowOf(call.tile.tly), RInt(call.ds.RasterYSize))

\* C23: a tile whose rectangle in pixels lies beyond the raster on one side
\* (above row 0, below the last row, left of column 0 or right of the last
\* column) gets no data, no slice and no read, wherever it lies on the other
\* axis
C23_NoOverlapOnAnySide ==
    (Called("getRawImageChunk")
        /\ (TileAbove \/ TileBelow \/ TileLeftOf \/ TileRightOf)) =>
        /\ ret.out.err = "none"
        /\ ret.out.data = None
        /\ ret.out.dataslice = None
        /\ ret.out.reads = <<>>

\* a tile above the raster within its columns has returned
C23_Witness ==
    /\ Called("getRawImageChunk")
    /\ TileAbove /\ TileInColumns
    /\ ret.out.data = None /\ ret.out.reads = <<>>

\* every read of the last call asks for a window and a buffer with pixels
ReadsWithPixels ==
    \A k \in 1..Len(ret.out.reads) :
        /\ ret.out.reads[k].xsize > 0 /\ ret.out.reads[k].ysize > 0
        /\ ret.out.reads[k].buf_xsize > 0 /\ ret.out.reads[k].buf_ysize > 0

\* C24: getRawImageChunk either signals no overlap or plans a source window
\* and a destination rectangle of positive width and height; it never
\* issues a read without pixels and never fails, also for a tile whose edge
\* is exactly on the edge of the raster
C24_OverlapHasPixels ==
    Called("getRawImageChunk") =>
        \/ /\ ret.plan.outside
           /\ ret.out.err = "none" /\ ret.out.data = None /\ ret.out.reads = <<>>
        \/ /\ ~ret.plan.outside
           /\ ret.plan.ovxsize > 0 /\ ret.plan.ovysize > 0
           /\ ret.plan.dspRastXSize > 0 /\ ret.plan.dspRastYSize > 0
           /\ ReadsWithPixels
           /\ ret.out.err = "none"

\* the last call read pixels for a tile finer than the raster
ChunkResampled ==
    /\ ChunkRead
    /\ RLt(ret.plan.imgPixPerWinPix, RInt(1))

\* the margins of read k: what its window adds to the window of the plan
MarginLeft(k) == ret.plan.ovleft - ret.out.reads[k].xoff

MarginTop(k) == ret.plan.ovtop - ret.out.reads[k].yoff

MarginRight(k) == ret.out.reads[k].xsize - ret.plan.ovxsize - MarginLeft(k)

MarginBottom(k) == ret.out.reads[k].ysize - ret.plan.ovysize - MarginTop(k)

\* the size of the band, or overview, that read k reads
ReadBandXSize(k) == BandXSize(call.ds, ret.out.reads[k].band, ret.out.reads[k].index)

ReadBandYSize(k) == BandYSize(call.ds, ret.out.reads[k].band, ret.out.reads[k].index)

\* C25: for bilinear resampling each margin of a read is min(1, distance
\* from the window's edge to that edge of the band read), so 0 or 1, and the
\* window with its margins lies within the band; for nearest resampling all
\* four margins are 0
C25_ReadMargins ==
    ChunkResampled =>
        \A k \in 1..Len(ret.out.reads) :
            /\ call.resampling = "bilinear" =>
                  /\ MarginLeft(k) = Min2(1, ret.plan.ovleft)
                  /\ MarginTop(k) = Min2(1, ret.plan.ovtop)
                  /\ MarginRight(k) = Min2(1, ReadBandXSize(k) - ret.plan.ovright)
                  /\ MarginBottom(k) = Min2(1, ReadBandYSize(k) - ret.plan.ovbottom)
                  /\ {MarginLeft(k), MarginTop(k), MarginRight(k), MarginBottom(k)}
                         \subseteq {0, 1}
                  /\ 0 <= ret.out.reads[k].xoff
                  /\ 0 <= ret.out.reads[k].yoff
                  /\ ret.out.reads[k].xoff + ret.out.reads[k].xsize <= ReadBandXSize(k)
                  /\ ret.out.reads[k].yoff + ret.out.reads[k].ysize <= ReadBandYSize(k)
                  /\ ret.out.reads[k].xsize >= 0 /\ ret.out.reads[k].ysize >= 0
            /\ call.resampling = "near" =>
                  /\ MarginLeft(k) = 0 /\ MarginTop(k) = 0
                  /\ MarginRight(k) = 0 /\ MarginBottom(k) = 0

\* a bilinear read at the right and bottom edge of the raster: a margin on
\* the left and top only
C25_Witness ==
    /\ ChunkResampled
    /\ call.resampling = "bilinear"
    /\ ret.out.err = "none"
    /\ MarginLeft(1) = 1 /\ MarginTop(1) = 1
    /\ MarginRight(1) = 0 /\ MarginBottom(1) = 0
    /\ ret.plan.ovxsize > 0 /\ ret.plan.ovysize > 0

\* the margins handed to the resampling function for read k (lines 783-786)
PassedLeft(k) ==
    ret.plan.dspLeftExtra + ScaledMargin(MarginLeft(k), ret.plan.imgPixPerWinPix)

PassedTop(k) ==
    ret.plan.dspTopExtra + ScaledMargin(MarginTop(k), ret.plan.imgPixPerWinPix)

PassedRight(k) ==
    ret.plan.dspRightExtra + ScaledMargin(MarginRight(k), ret.plan.imgPixPerWinPix)

PassedBottom(k) ==
    ret.plan.dspBottomExtra + ScaledMargin(MarginBottom(k), ret.plan.imgPixPerWinPix)

\* C26: for an overlapping tile finer than the raster the four margins
\* handed to the resampling function, the display extra plus the scaled read
\* margin on each side, are >= 0, and so are the four extras, the clamped
\* right and bottom ones and the unclamped left and top ones
C26_PassedMarginsNotNegative ==
    ChunkResampled =>
        /\ ret.plan.dspLeftExtra >= 0 /\ ret.plan.dspTopExtra >= 0
        /\ ret.plan.dspRightExtra >= 0 /\ ret.plan.dspBottomExtra >= 0
        /\ \A k \in 1..Len(ret.out.reads) :
              /\ PassedLeft(k) >= 0 /\ PassedTop(k) >= 0
              /\ PassedRight(k) >= 0 /\ PassedBottom(k) >= 0

\* a tile that starts within a pixel of the raster: a left extra of display
\* pixels and a read margin on top of it
C26_Witness ==
    /\ ChunkResampled
    /\ call.resampling = "bilinear"
    /\ ret.plan.dspLeftExtra > 0
    /\ MarginLeft(1) = 1
    /\ PassedLeft(1) > ret.plan.dspLeftExtra
    /\ ret.plan.imgPixPerWinPix = Rat(3, 8)

\* n pixels of the selected level in pixels of the raster
FullRes(n) == RMul(RInt(n), ret.plan.selectedovi.fullrespixperpix)

\* C29: whenever getRawImageChunk reads pixels the source window lies in the
\* selected level, 0 <= ovleft <= ovright <= xsize and 0 <= ovtop <=
\* ovbottom <= ysize, and covers the clipped rectangle of the tile:
\* ovleft * f <= pixLeft, ovtop * f <= pixTop, ovright * f >= pixRight and
\* ovbottom * f >= pixBottom for the level's fullrespixperpix f
C29_WindowCoversTile ==
    ChunkRead =>
        /\ 0 <= ret.plan.ovleft /\ ret.plan.ovleft <= ret.plan.ovright
        /\ ret.plan.ovright <= ret.plan.selectedovi.xsize
        /\ 0 <= ret.plan.ovtop /\ ret.plan.ovtop <= ret.plan.ovbottom
        /\ ret.plan.ovbottom <= ret.plan.selectedovi.ysize
        /\ RLe(FullRes(ret.plan.ovleft), ret.plan.pixLeft)
        /\ RLe(FullRes(ret.plan.ovtop), ret.plan.pixTop)
        /\ RLe(ret.plan.pixRight, FullRes(ret.plan.ovright))
        /\ RLe(ret.plan.pixBottom, FullRes(ret.plan.ovbottom))

(***************************************************************************)
(* The resampling functions                                                *)
(***************************************************************************)
Resampled == Called("replicateArray") \/ Called("bilinearResample")

\* the source row and column of the value v of a source array
SourceRowOf(v) == (v - 1) \div 10

SourceColOf(v) == (v - 1) % 10

\* the values of the source array of the call
SourceValues ==
    {call.arr.pix[r][c] : r \in 0..(call.arr.ysize - 1), c \in 0..(call.arr.xsize - 1)}

\* C27: for a source array with pixels, a target size with positive entries
\* and four margins >= 0, replicateArray returns exactly ysize rows and
\* xsize columns; every element is an element of the source whose row
\* depends on the output row only and does not decrease along it, and
\* whose column depends on the output column only and does not decrease
\* along it; bilinearResample returns exactly ysize rows and xsize columns
C27_ResampledShape ==
    Resampled =>
        /\ ret.err = "none"
        /\ ret.arr.ysize = call.outsize[1]
        /\ ret.arr.xsize = call.outsize[2]
        /\ DOMAIN ret.arr.pix = 0..(call.outsize[1] - 1)
        /\ \A i \in 0..(call.outsize[1] - 1) :
              DOMAIN ret.arr.pix[i] = 0..(call.outsize[2] - 1)
        /\ Called("replicateArray") =>
              \A i \in 0..(call.outsize[1] - 1), j \in 0..(call.outsize[2] - 1) :
                  /\ ret.arr.pix[i][j] \in SourceValues
                  /\ SourceRowOf(ret.arr.pix[i][j]) = SourceRowOf(ret.arr.pix[i][0])
                  /\ SourceColOf(ret.arr.pix[i][j]) = SourceColOf(ret.arr.pix[0][j])
                  /\ i > 0 => SourceRowOf(ret.arr.pix[i - 1][j])
                                  <= SourceRowOf(ret.arr.pix[i][j])
                  /\ j > 0 => SourceColOf(ret.arr.pix[i][j - 1])
                                  <= SourceColOf(ret.arr.pix[i][j])

\* seven rows are replicated to 29: the grid is a row longer than asked for
\* and is cropped
C27_Witness ==
    /\ Called("replicateArray")
    /\ call.arr.ysize = 7
    /\ call.outsize[1] + call.dspTopExtra + call.dspBottomExtra = 29
    /\ CeilProd(7, 29, 7) = 30
    /\ ret.err = "none"
    /\ ret.arr.ysize = call.outsize[1]

\* C28: at a 1:1 ratio, the target size being the shape of the source and
\* the four margins 0, nearest and bilinear resampling return the source
\* array element for element
C28_IdentityAtOneToOne ==
    (Resampled
        /\ call.outsize = <<call.arr.ysize, call.arr.xsize>>
        /\ call.dspLeftExtra = 0 /\ call.dspTopExtra = 0
        /\ call.dspRightExtra = 0 /\ call.dspBottomExtra = 0) =>
        /\ ret.err = "none"
        /\ ret.arr = call.arr

\* a 3 x 2 array has come back from nearest resampling at 1:1
C28_Witness ==
    /\ Called("replicateArray")
    /\ call.arr.ysize = 3 /\ call.arr.xsize = 2
    /\ call.outsize = <<3, 2>>
    /\ call.dspLeftExtra + call.dspTopExtra + call.dspRightExtra + call.dspBottomExtra = 0
    /\ ret.arr = call.arr

(***************************************************************************)
(* Scratch files                                                           *)
(***************************************************************************)
\* the call that wrote the file of this name is still running
OwnerRunning(name) ==
    LET owner == vsimem[name].owner
    IN  /\ owner[1] \in DOMAIN thr
        /\ thr[owner[1]].calls = owner[2]
        /\ thr[owner[1]].pc \in {"copied", "opened", "read", "raised"}

\* C30: every scratch file createBytesIOFromMEM creates is unlinked before
\* the call ends, whether the call returns or raises part-way (the encoder
\* or the read-back fails): a file in the in-memory file system belongs to
\* a call that is still running, and after calls that have ended none is left
C30_ScratchUnlinked ==
    \A name \in DOMAIN vsimem : OwnerRunning(name)

====
